---- MODULE Spec2Model ----
(***************************************************************************)
(* GS1 identifier library of logistic-label-simple:                        *)
(*   src/lib/gs1Utils.js        (module "lib")                             *)
(*   src/lib/utils/gs1Utils.js  (module "utils")                           *)
(*   src/lib/barcodeGenerator.js (module "barcode")                        *)
(* Every library function is pure; a behaviour of a library specification *)
(* is one call: Init draws the function, the module and the arguments, the *)
(* action applies the function and stores what it returned or threw.       *)
(* The callers have specifications of their own: a sequence of calls       *)
(* (SpecSeq), the form page src/routes/+page.svelte (SpecGtin, SpecSubmit),*)
(* the preview endpoint src/routes/api/pdf/preview/+server.js              *)
(* (SpecRequests, SpecServer) and the labels page with LabelPreview        *)
(* (SpecLabels, SpecLabelsFair).                                           *)
(***************************************************************************)
EXTENDS Integers, Sequences, FiniteSets, TLC

VARIABLES
    pc,     \* "called" before the function body ran, "returned" after
    fn,     \* name of the library function called
    mod,    \* "lib" = src/lib/gs1Utils.js, "utils" = src/lib/utils/gs1Utils.js
    arg,    \* record of the arguments of the call
    ret,    \* [threw, value]: the completion of the call
    console, \* the lines written with console.warn and console.error
    heap,   \* what outlives a call: the caller's objects, the Math.random
            \* stream, the calls made so far (sequences of calls only)
    page,   \* the component variables of the form page, src/routes/+page.svelte
    server, \* the preview endpoint: preview files, clock, requests answered
    labels  \* the labels page and its LabelPreview component

\* the variables of one library call, and the variables of the callers
libVars == <<pc, fn, mod, arg, ret, console>>
appVars == <<heap, page, server, labels>>
vars == <<pc, fn, mod, arg, ret, console, heap, page, server, labels>>

\* a part of the program that a specification leaves out
Unused(v) == v = <<>>

\* a single library call has no caller state
AppIdle == Unused(heap) /\ Unused(page) /\ Unused(server) /\ Unused(labels)

-----------------------------------------------------------------------------
(* Bounds of the model *)

MaxDigits == 18        \* longest digit string given to the check digit functions
MaxPrefixLen == 18     \* longest company prefix given to generateSSCC
RandDenom == 20        \* Math.random() ranges over k / RandDenom, k in 0..RandDenom-1
MaxElems == 3          \* most keys of an object given to the assemblers
MaxLotLen == 21        \* longest lot number given to validateLotNumber
MaxMantissa == 60      \* weights m / 10^d are drawn for |m| <= MaxMantissa
MaxDecimals == 6       \* largest decimalPlaces given to the weight formatters
MaxScaled == 100000000 \* largest |weight| * 10^decimalPlaces drawn

-----------------------------------------------------------------------------
(* JavaScript values *)

Str(s) == [type |-> "string", val |-> s]
Num(n) == [type |-> "number", nan |-> FALSE, val |-> n, dec |-> 0]    \* the integer n
Dec(m, d) == [type |-> "number", nan |-> FALSE, val |-> m, dec |-> d] \* m / 10^d
NaN == [type |-> "number", nan |-> TRUE, val |-> 0, dec |-> 0]
DateObj(y, m, d) == [type |-> "Date", valid |-> TRUE, year |-> y, month |-> m, day |-> d]
InvalidDate == [type |-> "Date", valid |-> FALSE, year |-> 0, month |-> 0, day |-> 0]
Null == [type |-> "null", val |-> "null"]
Undefined == [type |-> "undefined", val |-> "undefined"]

Return(v) == [threw |-> FALSE, value |-> v]
Throw(msg) == [threw |-> TRUE, value |-> msg]
NoRet == [threw |-> FALSE, value |-> "pending"]

DigitChars == {"0", "1", "2", "3", "4", "5", "6", "7", "8", "9"}
DigitSeq == <<"0", "1", "2", "3", "4", "5", "6", "7", "8", "9">>

CharAt(s, i) == SubSeq(s, i + 1, i + 1)          \* s.charAt(i), 0-based

Lower == "abcdefghijklmnopqrstuvwxyz"
Upper == "ABCDEFGHIJKLMNOPQRSTUVWXYZ"

\* the characters of the class [A-Za-z0-9]
AlnumChars ==
    {CharAt(Lower, i) : i \in 0..25} \cup {CharAt(Upper, i) : i \in 0..25}
        \cup {"0", "1", "2", "3", "4", "5", "6", "7", "8", "9"}

\* parseInt of a one-character digit string
parseInt(d) == CHOOSE n \in 0..9 : DigitSeq[n + 1] = d

\* /^\d*$/.test(s): the quantifier * in place of +, which admits the empty string
RegexDigitsStar(s) == \A i \in 0..(Len(s) - 1) : CharAt(s, i) \in DigitChars

\* /^\d+$/.test(s): one or more characters, all ASCII digits, up to the very
\* end of the input (no m flag: $ does not match before a final newline)
RegexDigitsPlus(s) ==
    /\ Len(s) >= 1
    /\ \A i \in 0..(Len(s) - 1) : CharAt(s, i) \in DigitChars

\* /^\d{n}$/.test(s)
RegexDigitsExactly(s, n) ==
    /\ Len(s) = n
    /\ \A i \in 0..(Len(s) - 1) : CharAt(s, i) \in DigitChars

\* s.split('').map(d => parseInt(d)): array indexed from 0
SplitDigits(s) == [i \in 0..(Len(s) - 1) |-> parseInt(CharAt(s, i))]

\* let sum = 0; arr.forEach(x => sum += x): the sum of arr[0..n-1]
RECURSIVE SumTo(_, _)
SumTo(arr, n) == IF n = 0 THEN 0 ELSE SumTo(arr, n - 1) + arr[n - 1]

-----------------------------------------------------------------------------
(* calculateGS1CheckDigit *)

\* the weights exchanged: 1 at even indexes, 3 at odd ones
calculateGS1CheckDigit_multiplier_swapped(index) == IF index % 2 = 0 THEN 1 ELSE 3

\* src/lib/utils/gs1Utils.js:145
calculateGS1CheckDigit_multiplier(index) == IF index % 2 = 0 THEN 3 ELSE 1

\* src/lib/utils/gs1Utils.js:133-151
calculateGS1CheckDigit(digits) ==
    IF digits.type # "string" \/ ~RegexDigitsPlus(digits.val)
    THEN Throw("Input must be a string of digits")
    ELSE LET digitsArray == SplitDigits(digits.val)
             sum == SumTo([index \in DOMAIN digitsArray |->
                              digitsArray[index] * calculateGS1CheckDigit_multiplier(index)],
                          Len(digits.val))
         IN  Return((10 - (sum % 10)) % 10)

\* src/lib/gs1Utils.js:53
calculateGS1CheckDigit_lib_multiplier(index) == IF index % 2 = 0 THEN 3 ELSE 1

\* src/lib/gs1Utils.js:41-59
calculateGS1CheckDigit_lib(digits) ==
    IF digits.type # "string" \/ ~RegexDigitsPlus(digits.val)
    THEN Throw("Input must be a string of digits")
    ELSE LET digitsArray == SplitDigits(digits.val)
             sum == SumTo([index \in DOMAIN digitsArray |->
                              digitsArray[index] * calculateGS1CheckDigit_lib_multiplier(index)],
                          Len(digits.val))
         IN  Return((10 - (sum % 10)) % 10)

-----------------------------------------------------------------------------
(* validateGTIN, validateSSCC *)

\* src/lib/utils/gs1Utils.js:28
validateGTIN_multiplier(index) == IF index % 2 = 0 THEN 3 ELSE 1

\* validateGTIN raising an error, as calculateGS1CheckDigit does, where the
\* code returns false
validateGTIN_throwing(gtin) ==
    IF gtin.type # "string" \/ ~RegexDigitsExactly(gtin.val, 14)
    THEN Throw("Invalid input: GTIN must be 14 digits")
    ELSE LET all == SplitDigits(gtin.val)
             checkDigit == all[13]
             digits == [index \in 0..12 |-> all[index]]
             sum == SumTo([index \in DOMAIN digits |->
                              digits[index] * validateGTIN_multiplier(index)], 13)
             calculatedCheckDigit == (10 - (sum % 10)) % 10
         IN  Return(calculatedCheckDigit = checkDigit)

\* src/lib/utils/gs1Utils.js:13-35
validateGTIN(gtin) ==
    IF gtin.type # "string" \/ ~RegexDigitsExactly(gtin.val, 14)
    THEN Return(FALSE)
    ELSE LET all == SplitDigits(gtin.val)
             checkDigit == all[13]                           \* digits.pop()
             digits == [index \in 0..12 |-> all[index]]
             sum == SumTo([index \in DOMAIN digits |->
                              digits[index] * validateGTIN_multiplier(index)], 13)
             calculatedCheckDigit == (10 - (sum % 10)) % 10
         IN  Return(calculatedCheckDigit = checkDigit)

\* src/lib/gs1Utils.js:82
validateGTIN_lib_multiplier(index) == IF index % 2 = 0 THEN 1 ELSE 3

\* src/lib/gs1Utils.js:67-89
validateGTIN_lib(gtin) ==
    IF gtin.type # "string" \/ ~RegexDigitsExactly(gtin.val, 14)
    THEN Return(FALSE)
    ELSE LET all == SplitDigits(gtin.val)
             checkDigit == all[13]                           \* digits.pop()
             digits == [index \in 0..12 |-> all[index]]
             sum == SumTo([index \in DOMAIN digits |->
                              digits[index] * validateGTIN_lib_multiplier(index)], 13)
             calculatedCheckDigit == (10 - (sum % 10)) % 10
         IN  Return(calculatedCheckDigit = checkDigit)

\* the weights of line 304 exchanged
validateSSCC_multiplier_swapped(index) == IF index % 2 = 0 THEN 1 ELSE 3

\* src/lib/utils/gs1Utils.js:304
validateSSCC_multiplier(index) == IF index % 2 = 0 THEN 3 ELSE 1

\* src/lib/utils/gs1Utils.js:291-311
validateSSCC(sscc) ==
    IF sscc.type # "string" \/ ~RegexDigitsExactly(sscc.val, 18)
    THEN Return(FALSE)
    ELSE LET digits == SplitDigits(SubSeq(sscc.val, 1, 17))  \* sscc.slice(0, 17)
             checkDigit == parseInt(CharAt(sscc.val, 17))
             sum == SumTo([index \in DOMAIN digits |->
                              digits[index] * validateSSCC_multiplier(index)], 17)
             calculatedCheckDigit == (10 - (sum % 10)) % 10
         IN  Return(calculatedCheckDigit = checkDigit)

\* /^[A-Za-z0-9]+$/.test(s)
RegexAlnumPlus(s) ==
    /\ Len(s) >= 1
    /\ \A i \in 0..(Len(s) - 1) : CharAt(s, i) \in AlnumChars

\* validateLotNumber without the test lotNumber.length <= 20
validateLotNumber_noUpperLimit(lotNumber) ==
    Return(/\ lotNumber.type = "string"
           /\ Len(lotNumber.val) >= 1
           /\ RegexAlnumPlus(lotNumber.val))

\* src/lib/utils/gs1Utils.js:43-49
validateLotNumber(lotNumber) ==
    Return(/\ lotNumber.type = "string"
           /\ Len(lotNumber.val) >= 1
           /\ Len(lotNumber.val) <= 20
           /\ RegexAlnumPlus(lotNumber.val))

\* src/lib/gs1Utils.js:97-103
validateLotNumber_lib(lotNumber) ==
    Return(/\ lotNumber.type = "string"
           /\ Len(lotNumber.val) >= 1
           /\ Len(lotNumber.val) <= 20
           /\ RegexAlnumPlus(lotNumber.val))

-----------------------------------------------------------------------------
(* Inputs of the check digit functions *)

BaseDigits == "123456789012345678901234567890"

\* s with the character at 0-based index i replaced by c
ReplaceAt(s, i, c) == SubSeq(s, 1, i) \o c \o SubSeq(s, i + 2, Len(s))

\* the digit strings of length n that differ from the base in at most one place
DigitStringsOfLen(n) ==
    {ReplaceAt(SubSeq(BaseDigits, 1, n), i, c) : i \in 0..(n - 1), c \in DigitChars}

DigitStrings == UNION {DigitStringsOfLen(n) : n \in 1..MaxDigits}

NonDigitChars == {"a", "Z", " ", "-", ".", "\n"}

\* strings that are not digit strings: empty, or a digit string with one
\* character replaced by, or followed by, a character that is not a digit
NonDigitStrings ==
    {""} \cup NonDigitChars
    \cup {ReplaceAt(SubSeq(BaseDigits, 1, n), i, c) :
              n \in {3, 13, 14, 17, 18}, i \in {0, 1, 2}, c \in NonDigitChars}
    \cup {SubSeq(BaseDigits, 1, n) \o c : n \in {3, 13, 14, 17, 18}, c \in NonDigitChars}

NonStrings == {Num(0), Num(7), Num(123), Null, Undefined}

CheckDigitInputs ==
    {Str(s) : s \in DigitStrings \cup NonDigitStrings} \cup NonStrings

\* 14- and 18-character candidates: a digit string followed by any digit
ValidateInputs(n) ==
    {Str(d \o c) : d \in DigitStringsOfLen(n - 1) \cup {SubSeq("0000000000000000000", 1, n - 1)},
                   c \in DigitChars}

\* what else a validator may be given: a non-string, a digit string of any
\* length, a string with a character that is not a digit
MalformedInputs ==
    {Str(s) : s \in DigitStrings \cup NonDigitStrings} \cup NonStrings

LotBase == "Ab3dE6gH9jK2mN5pQ8sT1vWx7"

BadLotChars == {" ", "-", "_", "\n"}

\* lot numbers of 0..MaxLotLen characters: alphanumeric, or with one
\* character replaced by, or followed by, a character outside [A-Za-z0-9]
LotInputs ==
    {Str(SubSeq(LotBase, 1, n)) : n \in 0..MaxLotLen}
    \cup UNION {{Str(ReplaceAt(SubSeq(LotBase, 1, n), i, c)) :
                     i \in {0, n \div 2, n - 1}, c \in BadLotChars} : n \in 1..MaxLotLen}
    \cup {Str(SubSeq(LotBase, 1, n) \o c) : n \in 0..(MaxLotLen - 1), c \in BadLotChars}
    \cup {Str(SubSeq(BaseDigits, 1, n)) : n \in 1..MaxLotLen}
    \cup NonStrings

-----------------------------------------------------------------------------
(* One call of a check digit function *)

InitCheck ==
    /\ pc = "called"
    /\ ret = NoRet
    /\ console = <<>> /\ AppIdle
    /\ mod \in {"lib", "utils"}
    /\ \/ fn = "calculateGS1CheckDigit" /\ arg \in {[digits |-> v] : v \in CheckDigitInputs}
       \/ fn = "validateGTIN"
             /\ arg \in {[gtin |-> v] : v \in ValidateInputs(14) \cup MalformedInputs}
       \/ fn = "validateSSCC" /\ mod = "utils"
             /\ arg \in {[sscc |-> v] : v \in ValidateInputs(18) \cup MalformedInputs}
       \/ fn = "validateLotNumber" /\ arg \in {[lotNumber |-> v] : v \in LotInputs}

CallCalculateGS1CheckDigit ==
    /\ pc = "called" /\ fn = "calculateGS1CheckDigit"
    /\ ret' = IF mod = "utils" THEN calculateGS1CheckDigit(arg.digits)
                               ELSE calculateGS1CheckDigit_lib(arg.digits)
    /\ pc' = "returned"
    /\ UNCHANGED <<fn, mod, arg, console, appVars>>

CallValidateGTIN ==
    /\ pc = "called" /\ fn = "validateGTIN"
    /\ ret' = IF mod = "utils" THEN validateGTIN(arg.gtin) ELSE validateGTIN_lib(arg.gtin)
    /\ pc' = "returned"
    /\ UNCHANGED <<fn, mod, arg, console, appVars>>

CallValidateSSCC ==
    /\ pc = "called" /\ fn = "validateSSCC"
    /\ ret' = validateSSCC(arg.sscc)
    /\ pc' = "returned"
    /\ UNCHANGED <<fn, mod, arg, console, appVars>>

CallValidateLotNumber ==
    /\ pc = "called" /\ fn = "validateLotNumber"
    /\ ret' = IF mod = "utils" THEN validateLotNumber(arg.lotNumber)
                               ELSE validateLotNumber_lib(arg.lotNumber)
    /\ pc' = "returned"
    /\ UNCHANGED <<fn, mod, arg, console, appVars>>

NextCheck ==
    \/ CallCalculateGS1CheckDigit
    \/ CallValidateGTIN
    \/ CallValidateSSCC
    \/ CallValidateLotNumber

SpecCheck == InitCheck /\ [][NextCheck]_vars

-----------------------------------------------------------------------------
(* generateSSCC *)

\* a parameter declared "= null": an omitted (undefined) argument becomes null
DefaultNull(v) == IF v.type = "undefined" THEN Null ELSE v

\* the values that the || operator skips
Falsy(v) ==
    \/ v.type \in {"null", "undefined"}
    \/ v.type = "string" /\ v.val = ""
    \/ v.type = "number" /\ (v.nan \/ v.val = 0)

\* Math.random(): the i-th draw of a call is Random(rnd, i) / RandDenom, in [0, 1)
Random(rnd, i) == (rnd.seed + rnd.step * i) % RandDenom

\* Math.floor(lo + Math.random() * width)
FloorRandom(lo, width, k) == lo + ((k * width) \div RandDenom)

\* the for loop of generateSSCC: the first n serial digits; the serial digits
\* use the draws first, first + 1, ...
RECURSIVE SerialReference(_, _, _)
SerialReference(n, rnd, first) ==
    IF n <= 0 THEN ""
    ELSE SerialReference(n - 1, rnd, first)
         \o ToString(FloorRandom(0, 10, Random(rnd, first + n - 1)))

\* the test of line 63 written as a truthiness test: extensionDigit ? ... : ...
generateSSCC_extensionGiven_truthy(extensionDigit) == ~Falsy(extensionDigit)

\* src/lib/utils/gs1Utils.js:63, extensionDigit !== null
generateSSCC_extensionGiven(extensionDigit) == extensionDigit.type # "null"

\* src/lib/utils/gs1Utils.js:58-80
generateSSCC(companyPrefixArg, extensionDigitArg, rnd) ==
    LET companyPrefix == DefaultNull(companyPrefixArg)
        extensionDigit == DefaultNull(extensionDigitArg)
        prefix == IF Falsy(companyPrefix)
                  THEN ToString(FloorRandom(1000000, 9000000, Random(rnd, 0)))
                  ELSE companyPrefix.val
        d1 == IF Falsy(companyPrefix) THEN 1 ELSE 0
        extension == IF generateSSCC_extensionGiven(extensionDigit)
                     THEN ToString(extensionDigit.val)
                     ELSE ToString(FloorRandom(0, 10, Random(rnd, d1)))
        d2 == IF generateSSCC_extensionGiven(extensionDigit) THEN d1 ELSE d1 + 1
        serialLength == 17 - Len(prefix) - 1
        serialReference == SerialReference(serialLength, rnd, d2)
        ssccWithoutCheck == extension \o prefix \o serialReference
        checkDigit == calculateGS1CheckDigit(Str(ssccWithoutCheck))
    IN  IF checkDigit.threw THEN checkDigit
        ELSE Return(ssccWithoutCheck \o ToString(checkDigit.value))

\* src/lib/gs1Utils.js:11-33
generateSSCC_lib(companyPrefixArg, extensionDigitArg, rnd) ==
    LET companyPrefix == DefaultNull(companyPrefixArg)
        extensionDigit == DefaultNull(extensionDigitArg)
        prefix == IF Falsy(companyPrefix)
                  THEN ToString(FloorRandom(1000000, 9000000, Random(rnd, 0)))
                  ELSE companyPrefix.val
        d1 == IF Falsy(companyPrefix) THEN 1 ELSE 0
        extension == IF extensionDigit.type # "null"
                     THEN ToString(extensionDigit.val)
                     ELSE ToString(FloorRandom(0, 10, Random(rnd, d1)))
        d2 == IF extensionDigit.type # "null" THEN d1 ELSE d1 + 1
        serialLength == 17 - Len(prefix) - 1
        serialReference == SerialReference(serialLength, rnd, d2)
        ssccWithoutCheck == extension \o prefix \o serialReference
        checkDigit == calculateGS1CheckDigit_lib(Str(ssccWithoutCheck))
    IN  IF checkDigit.threw THEN checkDigit
        ELSE Return(ssccWithoutCheck \o ToString(checkDigit.value))

-----------------------------------------------------------------------------
(* One call of generateSSCC *)

PrefixBase == "614141234567890123456789"

\* omitted, the empty string, or the first n digits of the base
CompanyPrefixes ==
    {Undefined, Null} \cup {Str(SubSeq(PrefixBase, 1, n)) : n \in 0..MaxPrefixLen}

ExtensionDigits == {Undefined, Null} \cup {Num(e) : e \in 0..9}

RandomSources == [seed : 0..(RandDenom - 1), step : {1, 7}]

InitSSCC ==
    /\ pc = "called"
    /\ ret = NoRet
    /\ console = <<>> /\ AppIdle
    /\ fn = "generateSSCC"
    /\ mod \in {"lib", "utils"}
    /\ arg \in [companyPrefix : CompanyPrefixes, extensionDigit : ExtensionDigits,
                rnd : RandomSources]

CallGenerateSSCC ==
    /\ pc = "called" /\ fn = "generateSSCC" /\ mod \in {"lib", "utils"}
    /\ ret' = IF mod = "utils"
              THEN generateSSCC(arg.companyPrefix, arg.extensionDigit, arg.rnd)
              ELSE generateSSCC_lib(arg.companyPrefix, arg.extensionDigit, arg.rnd)
    /\ pc' = "returned"
    /\ UNCHANGED <<fn, mod, arg, console, appVars>>

NextSSCC == CallGenerateSSCC

SpecSSCC == InitSSCC /\ [][NextSSCC]_vars

-----------------------------------------------------------------------------
(* generateSSCC with a company prefix that is not a digit string; module    *)
(* "utils_v2" is the second generateSSCC of src/lib/utils/gs1Utils.js,      *)
(* which computes the check digit itself                                    *)

\* src/lib/utils/gs1Utils.js:401
generateSSCC_v2_multiplier(index) == IF index % 2 = 0 THEN 3 ELSE 1

\* src/lib/utils/gs1Utils.js:379-409; parseInt of a character that is not a
\* digit is NaN, and so are the sum and the check digit computed from it
generateSSCC_v2(companyPrefixArg, rnd) ==
    LET companyPrefix == DefaultNull(companyPrefixArg)
        prefix == IF Falsy(companyPrefix)
                  THEN ToString(FloorRandom(1000000, 9000000, Random(rnd, 0)))
                  ELSE companyPrefix.val
        d1 == IF Falsy(companyPrefix) THEN 1 ELSE 0
        extensionDigit == ToString(FloorRandom(0, 10, Random(rnd, d1)))
        serialLength == 17 - Len(prefix) - 1
        serialReference == SerialReference(serialLength, rnd, d1 + 1)
        ssccWithoutCheck == extensionDigit \o prefix \o serialReference
        n == Len(ssccWithoutCheck)
        sumIsNaN == \E index \in 0..(n - 1) : CharAt(ssccWithoutCheck, index) \notin DigitChars
        sum == SumTo([index \in 0..(n - 1) |->
                         parseInt(CharAt(ssccWithoutCheck, index))
                             * generateSSCC_v2_multiplier(index)], n)
        checkDigit == IF sumIsNaN THEN "NaN" ELSE ToString((10 - (sum % 10)) % 10)
    IN  Return(ssccWithoutCheck \o checkDigit)

\* company prefixes of 1..MaxPrefixLen characters: digits, or digits with one
\* character that is not a digit
MixedPrefixes ==
    {Str(SubSeq(PrefixBase, 1, n)) : n \in 1..MaxPrefixLen}
    \cup UNION {{Str(ReplaceAt(SubSeq(PrefixBase, 1, n), i, c)) :
                     i \in {0, n \div 2, n - 1}, c \in NonDigitChars} : n \in 1..MaxPrefixLen}

InitPrefix ==
    /\ pc = "called"
    /\ ret = NoRet
    /\ console = <<>> /\ AppIdle
    /\ fn = "generateSSCC"
    /\ mod \in {"lib", "utils", "utils_v2"}
    /\ \E p \in MixedPrefixes : \E seed \in {0, 7, RandDenom - 1} :
          arg = [companyPrefix |-> p, extensionDigit |-> Undefined,
                 rnd |-> [seed |-> seed, step |-> 7]]

CallGenerateSSCC_v2 ==
    /\ pc = "called" /\ fn = "generateSSCC" /\ mod = "utils_v2"
    /\ ret' = generateSSCC_v2(arg.companyPrefix, arg.rnd)
    /\ pc' = "returned"
    /\ UNCHANGED <<fn, mod, arg, console, appVars>>

NextPrefix == CallGenerateSSCC \/ CallGenerateSSCC_v2

SpecPrefix == InitPrefix /\ [][NextPrefix]_vars

-----------------------------------------------------------------------------
(* Strings and numbers of the formatters *)

\* s.padStart(n, '0')
RECURSIVE padStart0(_, _)
padStart0(s, n) == IF Len(s) >= n THEN s ELSE padStart0("0" \o s, n)

\* s.slice(-2)
sliceLast2(s) == IF Len(s) <= 2 THEN s ELSE SubSeq(s, Len(s) - 1, Len(s))

RECURSIVE Pow10(_)
Pow10(n) == IF n = 0 THEN 1 ELSE 10 * Pow10(n - 1)

\* the number written by a string of digits
RECURSIVE StrToNat(_)
StrToNat(s) ==
    IF s = "" THEN 0
    ELSE 10 * StrToNat(SubSeq(s, 1, Len(s) - 1)) + parseInt(CharAt(s, Len(s) - 1))

\* the length of the longest prefix of s made of digits
RECURSIVE DigitPrefixLen(_)
DigitPrefixLen(s) ==
    IF s = "" \/ CharAt(s, 0) \notin DigitChars THEN 0
    ELSE 1 + DigitPrefixLen(SubSeq(s, 2, Len(s)))

\* parseFloat(v) of a number, or of a string read as digits [ '.' digits ]
\* followed by anything; a string that does not start with a digit is NaN
\* (signs, leading blanks, leading '.' and exponents are not drawn as inputs)
parseFloat(v) ==
    CASE v.type = "number" -> v
      [] v.type = "string" ->
            LET s == v.val
                n == DigitPrefixLen(s)
                rest == SubSeq(s, n + 1, Len(s))
                f == IF rest # "" /\ CharAt(rest, 0) = "."
                     THEN DigitPrefixLen(SubSeq(rest, 2, Len(rest))) ELSE 0
            IN  IF n = 0 THEN NaN
                ELSE Dec(StrToNat(SubSeq(s, 1, n) \o SubSeq(rest, 2, 1 + f)), f)
      [] OTHER -> NaN

isNaN(v) == v.type = "number" /\ v.nan

\* Math.floor in the place of Math.round
RoundScaled_floor(num, decimalPlaces) ==
    (num.val * Pow10(decimalPlaces)) \div Pow10(num.dec)

\* Math.round(num * Math.pow(10, decimalPlaces)) in exact arithmetic:
\* floor(x + 1/2) of x = val * 10^decimalPlaces / 10^dec
RoundScaled(num, decimalPlaces) ==
    (2 * num.val * Pow10(decimalPlaces) + Pow10(num.dec)) \div (2 * Pow10(num.dec))

\* String(v), `${v}`, '' + v for the strings and the non-negative numbers
JSString(v) ==
    CASE v.type = "string" -> v.val
      [] v.type = "number" /\ v.nan -> "NaN"
      [] v.type = "number" /\ ~v.nan /\ v.dec = 0 -> ToString(v.val)
      [] v.type = "number" /\ ~v.nan /\ v.dec > 0 ->
            ToString(v.val \div Pow10(v.dec)) \o "."
                \o padStart0(ToString(v.val % Pow10(v.dec)), v.dec)
      [] OTHER -> v.type

-----------------------------------------------------------------------------
(* Dates *)

IsLeap(y) == (y % 4 = 0 /\ y % 100 # 0) \/ y % 400 = 0

\* m is 0-based, as getMonth()
DaysInMonth(y, m) ==
    IF m = 1 THEN (IF IsLeap(y) THEN 29 ELSE 28)
    ELSE IF m \in {3, 5, 8, 10} THEN 30 ELSE 31

\* the calendar day before the given one
PrevDay(d) ==
    IF d.day > 1 THEN DateObj(d.year, d.month, d.day - 1)
    ELSE IF d.month > 0 THEN DateObj(d.year, d.month - 1, DaysInMonth(d.year, d.month - 1))
    ELSE DateObj(d.year - 1, 11, 31)

\* /^\d{4}-\d{2}-\d{2}$/ with a month and a day that exist
IsISODate(s) ==
    /\ Len(s) = 10
    /\ \A i \in {0, 1, 2, 3, 5, 6, 8, 9} : CharAt(s, i) \in DigitChars
    /\ CharAt(s, 4) = "-" /\ CharAt(s, 7) = "-"
    /\ StrToNat(SubSeq(s, 6, 7)) \in 1..12
    /\ StrToNat(SubSeq(s, 9, 10)) \in
           1..DaysInMonth(StrToNat(SubSeq(s, 1, 4)), StrToNat(SubSeq(s, 6, 7)) - 1)

\* new Date(v) for a string: a date-only ISO string is midnight UTC of that
\* day, which west of Greenwich (tz < 0, hours) is the evening of the day
\* before in local time; the other strings drawn are not dates at all
newDate(v, tz) ==
    IF v.type = "string" /\ IsISODate(v.val)
    THEN LET utc == DateObj(StrToNat(SubSeq(v.val, 1, 4)),
                            StrToNat(SubSeq(v.val, 6, 7)) - 1,
                            StrToNat(SubSeq(v.val, 9, 10)))
         IN  IF tz < 0 THEN PrevDay(utc) ELSE utc
    ELSE InvalidDate

\* src/lib/utils/gs1Utils.js:88-102
formatGS1Date(date, tz) ==
    IF Falsy(date) THEN ""
    ELSE LET dateObj == IF date.type = "Date" THEN date ELSE newDate(date, tz)
         IN  IF ~dateObj.valid THEN ""
             ELSE LET year == sliceLast2(ToString(dateObj.year))
                      month == padStart0(ToString(dateObj.month + 1), 2)
                      day == padStart0(ToString(dateObj.day), 2)
                  IN  year \o month \o day

\* src/lib/gs1Utils.js:111-125
formatGS1Date_lib(date, tz) ==
    IF Falsy(date) THEN ""
    ELSE LET dateObj == IF date.type = "Date" THEN date ELSE newDate(date, tz)
         IN  IF ~dateObj.valid THEN ""
             ELSE LET year == sliceLast2(ToString(dateObj.year))
                      month == padStart0(ToString(dateObj.month + 1), 2)
                      day == padStart0(ToString(dateObj.day), 2)
                  IN  year \o month \o day

\* formatGS1Weight padding to 5 characters
formatGS1Weight_padFive(weight, decimalPlaces) ==
    IF weight.type \in {"undefined", "null"} THEN "000000"
    ELSE LET numWeight == parseFloat(weight)
         IN  IF isNaN(numWeight) THEN "000000"
             ELSE LET scaledWeight == RoundScaled(numWeight, decimalPlaces)
                  IN  padStart0(ToString(scaledWeight), 5)

\* src/lib/utils/gs1Utils.js:112-125
formatGS1Weight(weight, decimalPlaces) ==
    IF weight.type \in {"undefined", "null"} THEN "000000"
    ELSE LET numWeight == parseFloat(weight)
         IN  IF isNaN(numWeight) THEN "000000"
             ELSE LET scaledWeight == RoundScaled(numWeight, decimalPlaces)
                  IN  padStart0(ToString(scaledWeight), 6)

\* formatGS1Weight keeping the last 6 characters of the padded string
formatGS1Weight_lib_truncated(weight, decimalPlaces) ==
    IF weight.type \in {"undefined", "null"} THEN "000000"
    ELSE LET numWeight == parseFloat(weight)
         IN  IF isNaN(numWeight) THEN "000000"
             ELSE LET scaledWeight == RoundScaled(numWeight, decimalPlaces)
                      padded == padStart0(ToString(scaledWeight), 6)
                  IN  SubSeq(padded, Len(padded) - 5, Len(padded))

\* src/lib/gs1Utils.js:135-148
formatGS1Weight_lib(weight, decimalPlaces) ==
    IF weight.type \in {"undefined", "null"} THEN "000000"
    ELSE LET numWeight == parseFloat(weight)
         IN  IF isNaN(numWeight) THEN "000000"
             ELSE LET scaledWeight == RoundScaled(numWeight, decimalPlaces)
                  IN  padStart0(ToString(scaledWeight), 6)

\* src/lib/barcodeGenerator.js:133-146
formatWeightForGS1(weight, decimalPlaces) ==
    IF weight.type \in {"undefined", "null"} THEN "000000"
    ELSE LET numWeight == parseFloat(weight)
         IN  IF isNaN(numWeight) THEN "000000"
             ELSE LET scaledWeight == RoundScaled(numWeight, decimalPlaces)
                  IN  padStart0(ToString(scaledWeight), 6)

-----------------------------------------------------------------------------
(* One call of a date formatter *)

\* the years of the dates drawn, from one to five digits
DateYears == {5, 99, 1999, 2000, 2024, 12024}

\* the Date objects of the days of those years (local calendar fields)
DateObjects ==
    UNION {UNION {{DateObj(y, m, d) : d \in 1..DaysInMonth(y, m)} : m \in 0..11} :
              y \in DateYears}

\* 'YYYY-MM-DD' of a Date of a year of at most four digits
ISOString(date) ==
    padStart0(ToString(date.year), 4) \o "-" \o padStart0(ToString(date.month + 1), 2)
        \o "-" \o padStart0(ToString(date.day), 2)

\* the date-only ISO strings of the same days
DateStrings == {Str(ISOString(date)) : date \in {x \in DateObjects : x.year <= 9999}}

\* what is not a date: an invalid Date object, strings new Date cannot read,
\* the empty string, null and undefined
NotDates ==
    {InvalidDate, Str("not a date"), Str("2024-13-05"), Str("2024-03-00"),
     Str("05/03"), Str(""), Null, Undefined}

InitDate ==
    /\ pc = "called" /\ ret = NoRet /\ console = <<>> /\ AppIdle
    /\ fn = "formatGS1Date" /\ mod \in {"lib", "utils"}
    /\ \E date \in DateObjects \cup DateStrings \cup NotDates, tz \in {-5, 0} :
          arg = [date |-> date, tz |-> tz]

CallFormatGS1Date ==
    /\ pc = "called" /\ fn = "formatGS1Date"
    /\ ret' = IF mod = "utils" THEN Return(formatGS1Date(arg.date, arg.tz))
                               ELSE Return(formatGS1Date_lib(arg.date, arg.tz))
    /\ pc' = "returned"
    /\ UNCHANGED <<fn, mod, arg, console, appVars>>

NextDate == CallFormatGS1Date

SpecDate == InitDate /\ [][NextDate]_vars

-----------------------------------------------------------------------------
(* One call of a weight formatter *)

\* the weights: m / 10^d for the small m, the values around the 6-digit
\* limit, strings with and without a leading number, and no value at all
WeightValues ==
    {Dec(m, d) : m \in (0 - MaxMantissa)..MaxMantissa, d \in 0..2}
    \cup {Num(999999), Num(1000000), Num(1234567), Dec(9999994, 1), Dec(9999995, 1)}
    \cup {Str(s) : s \in {"12", "12.5", "0.125", "12.", "1234567", "1500.45",
                          "12kg", "1.5 kg", "kg12", "abc", "", " ", "."}}
    \cup {NaN, Null, Undefined}

\* decimalPlaces: left out, or 0..MaxDecimals
DecimalPlaces == {Undefined} \cup {Num(n) : n \in 0..MaxDecimals}

\* decimalPlaces = 0 in the parameter list
DefaultZero(v) == IF v.type = "undefined" THEN 0 ELSE v.val

\* the scaled weight stays an integer the checker can compute
Fits(weight, decimalPlaces) ==
    LET num == parseFloat(weight)
        abs == IF num.val < 0 THEN 0 - num.val ELSE num.val
    IN  abs <= MaxScaled \div Pow10(DefaultZero(decimalPlaces))

InitWeight ==
    /\ pc = "called" /\ ret = NoRet /\ console = <<>> /\ AppIdle
    /\ \/ fn = "formatGS1Weight" /\ mod \in {"lib", "utils"}
       \/ fn = "formatWeightForGS1" /\ mod = "barcode"
    /\ \E w \in WeightValues, dp \in DecimalPlaces :
          /\ Fits(w, dp)
          /\ arg = [weight |-> w, decimalPlaces |-> dp]

CallFormatGS1Weight ==
    /\ pc = "called" /\ fn = "formatGS1Weight"
    /\ ret' = IF mod = "utils"
              THEN Return(formatGS1Weight(arg.weight, DefaultZero(arg.decimalPlaces)))
              ELSE Return(formatGS1Weight_lib(arg.weight, DefaultZero(arg.decimalPlaces)))
    /\ pc' = "returned"
    /\ UNCHANGED <<fn, mod, arg, console, appVars>>

CallFormatWeightForGS1 ==
    /\ pc = "called" /\ fn = "formatWeightForGS1"
    /\ ret' = Return(formatWeightForGS1(arg.weight, DefaultZero(arg.decimalPlaces)))
    /\ pc' = "returned"
    /\ UNCHANGED <<fn, mod, arg, console, appVars>>

NextWeight == CallFormatGS1Weight \/ CallFormatWeightForGS1

SpecWeight == InitWeight /\ [][NextWeight]_vars

-----------------------------------------------------------------------------
(* Objects: a sequence of <<key, value>> entries with distinct keys, in the  *)
(* order in which the caller wrote the properties                            *)

\* a key that is an array index: a canonical decimal number below 2^32 - 1
\* (every canonical key of up to 9 digits is; keys of 10 digits are not drawn)
IsArrayIndex(key) ==
    /\ RegexDigitsPlus(key)
    /\ key = "0" \/ CharAt(key, 0) # "0"
    /\ Len(key) <= 9

\* the entries of es in ascending order of their numeric keys
RECURSIVE SortByIndex(_)
SortByIndex(es) ==
    IF es = <<>> THEN <<>>
    ELSE LET i == CHOOSE x \in 1..Len(es) :
                      \A y \in 1..Len(es) : StrToNat(es[x][1]) <= StrToNat(es[y][1])
         IN  <<es[i]>> \o SortByIndex(SubSeq(es, 1, i - 1) \o SubSeq(es, i + 1, Len(es)))

\* Object.entries(obj) / Object.keys(obj): own property order of ECMAScript,
\* the array-index keys ascending, then the other keys in creation order
ObjectEntries(obj) ==
    SortByIndex(SelectSeq(obj, LAMBDA e : IsArrayIndex(e[1])))
        \o SelectSeq(obj, LAMBDA e : ~IsArrayIndex(e[1]))

\* s.toUpperCase() for ASCII strings
RECURSIVE toUpperCase(_)
toUpperCase(s) ==
    IF s = "" THEN ""
    ELSE LET c == CharAt(s, 0)
             u == IF \E i \in 0..25 : CharAt(Lower, i) = c
                  THEN CharAt(Upper, CHOOSE i \in 0..25 : CharAt(Lower, i) = c)
                  ELSE c
         IN  u \o toUpperCase(SubSeq(s, 2, Len(s)))

\* s.endsWith(t)
endsWith(s, t) == Len(s) >= Len(t) /\ SubSeq(s, Len(s) - Len(t) + 1, Len(s)) = t

Nullish(v) == v.type \in {"undefined", "null"}

-----------------------------------------------------------------------------
(* The assemblers *)

GS == "<GS>"

\* src/lib/utils/gs1Utils.js:189-198
isVariableLengthAI(ai) ==
    ai \in {"00", "01", "02", "10", "11", "12", "13", "15", "17", "20",
            "21", "22", "30", "37", "90", "91", "92", "93", "94", "95",
            "96", "97", "98", "99"}

\* src/lib/utils/gs1Utils.js:175
createGS1DataMatrix_separator(ai, index, nkeys) ==
    IF index < nkeys - 1 /\ isVariableLengthAI(ai) THEN GS ELSE ""

\* the body of keys.forEach in createGS1DataMatrix, entries 1..n done
RECURSIVE createGS1DataMatrix_forEach(_, _)
createGS1DataMatrix_forEach(entries, n) ==
    IF n = 0 THEN ""
    ELSE LET dataMatrix == createGS1DataMatrix_forEach(entries, n - 1)
             ai == entries[n][1]
             value == entries[n][2]
             index == n - 1
         IN  IF Nullish(value) THEN dataMatrix
             ELSE dataMatrix \o "(" \o ai \o ")" \o JSString(value)
                      \o createGS1DataMatrix_separator(ai, index, Len(entries))

\* src/lib/utils/gs1Utils.js:159-181
createGS1DataMatrix(dataElements) ==
    LET entries == ObjectEntries(dataElements)
    IN  Return(createGS1DataMatrix_forEach(entries, Len(entries)))

\* the switch with a default branch that tests nothing
createGS1BarcodeString_switch_noTest(ai, value, tz) ==
    CASE ai = "SSCC" -> "(00)" \o JSString(value)
      [] ai = "GTIN" -> "(01)" \o JSString(value)
      [] ai = "CONTENT_GTIN" -> "(02)" \o JSString(value)
      [] ai = "BATCH_LOT" -> "(10)" \o JSString(value)
      [] ai = "PROD_DATE" -> "(11)" \o formatGS1Date(value, tz)
      [] ai = "EXP_DATE" -> "(17)" \o formatGS1Date(value, tz)
      [] ai = "QTY" -> "(37)" \o padStart0(JSString(value), 6)
      [] ai = "WEIGHT_KG" -> "(3103)" \o formatGS1Weight(value, 3)
      [] ai = "WEIGHT_LB" -> "(3201)" \o formatGS1Weight(value, 1)
      [] OTHER -> "(" \o ai \o ")" \o JSString(value)

\* src/lib/utils/gs1Utils.js:229-269: what the switch appends for one entry
createGS1BarcodeString_switch(ai, value, tz) ==
    CASE ai = "SSCC" -> "(00)" \o JSString(value)
      [] ai = "GTIN" -> "(01)" \o JSString(value)
      [] ai = "CONTENT_GTIN" -> "(02)" \o JSString(value)
      [] ai = "BATCH_LOT" -> "(10)" \o JSString(value)
      [] ai = "PROD_DATE" -> "(11)" \o formatGS1Date(value, tz)
      [] ai = "EXP_DATE" -> "(17)" \o formatGS1Date(value, tz)
      [] ai = "QTY" -> "(37)" \o padStart0(JSString(value), 6)
      [] ai = "WEIGHT_KG" -> "(3103)" \o formatGS1Weight(value, 3)
      [] ai = "WEIGHT_LB" -> "(3201)" \o formatGS1Weight(value, 1)
      [] OTHER -> IF RegexDigitsPlus(ai)
                  THEN "(" \o ai \o ")" \o JSString(value)
                  ELSE ""                                  \* console.warn only

\* the case labels of the switch
SwitchCases ==
    {"SSCC", "GTIN", "CONTENT_GTIN", "BATCH_LOT", "PROD_DATE", "EXP_DATE",
     "QTY", "WEIGHT_KG", "WEIGHT_LB"}

\* src/lib/utils/gs1Utils.js:262-269: what the default branch writes with
\* console.warn for one entry
createGS1BarcodeString_warn(ai) ==
    IF ai \notin SwitchCases /\ ~RegexDigitsPlus(ai)
    THEN <<"Unknown GS1 AI: " \o ai>>
    ELSE <<>>

\* the lines console.warn got in the for loop, entries 1..n done
RECURSIVE createGS1BarcodeString_warnings(_, _)
createGS1BarcodeString_warnings(entries, n) ==
    IF n = 0 THEN <<>>
    ELSE LET lines == createGS1BarcodeString_warnings(entries, n - 1)
             value == entries[n][2]
             ai == toUpperCase(entries[n][1])
         IN  IF Nullish(value) THEN lines
             ELSE lines \o createGS1BarcodeString_warn(ai)

\* src/lib/utils/gs1Utils.js:272-274
createGS1BarcodeString_separator(ai) == IF isVariableLengthAI(ai) THEN GS ELSE ""

\* the body of the for loop of createGS1BarcodeString, entries 1..n done
RECURSIVE createGS1BarcodeString_loop(_, _, _)
createGS1BarcodeString_loop(entries, n, tz) ==
    IF n = 0 THEN ""
    ELSE LET gs1String == createGS1BarcodeString_loop(entries, n - 1, tz)
             key == entries[n][1]
             value == entries[n][2]
             ai == toUpperCase(key)
         IN  IF Nullish(value) THEN gs1String
             ELSE gs1String \o createGS1BarcodeString_switch(ai, value, tz)
                      \o createGS1BarcodeString_separator(ai)

\* src/lib/utils/gs1Utils.js:217-283
createGS1BarcodeString(data, tz) ==
    LET entries == ObjectEntries(data)
        gs1String == createGS1BarcodeString_loop(entries, Len(entries), tz)
    IN  Return(IF endsWith(gs1String, GS)
               THEN SubSeq(gs1String, 1, Len(gs1String) - 4)   \* slice(0, -4)
               ELSE gs1String)

\* src/lib/barcodeGenerator.js:109-124
formatDateForGS1(date, tz) ==
    IF Falsy(date) THEN "000000"
    ELSE LET dateObj == IF date.type = "Date" THEN date ELSE newDate(date, tz)
         IN  IF ~dateObj.valid THEN "000000"
             ELSE LET year == sliceLast2(ToString(dateObj.year))
                      month == padStart0(ToString(dateObj.month + 1), 2)
                      day == padStart0(ToString(dateObj.day), 2)
                  IN  year \o month \o day

\* src/lib/barcodeGenerator.js:41-81: what the switch appends for one entry
generateGS1Barcode_switch(ai, value, tz) ==
    CASE ai = "SSCC" -> "(00)" \o JSString(value)
      [] ai = "GTIN" -> "(01)" \o JSString(value)
      [] ai = "CONTENT_GTIN" -> "(02)" \o JSString(value)
      [] ai = "BATCH_LOT" -> "(10)" \o JSString(value)
      [] ai = "PROD_DATE" -> "(11)" \o formatDateForGS1(value, tz)
      [] ai = "EXP_DATE" -> "(17)" \o formatDateForGS1(value, tz)
      [] ai = "QTY" -> "(37)" \o padStart0(JSString(value), 6)
      [] ai = "WEIGHT_KG" -> "(3103)" \o formatWeightForGS1(value, 3)
      [] ai = "WEIGHT_LB" -> "(3201)" \o formatWeightForGS1(value, 1)
      [] OTHER -> IF RegexDigitsPlus(ai)
                  THEN "(" \o ai \o ")" \o JSString(value)
                  ELSE ""                                  \* console.warn only

\* src/lib/barcodeGenerator.js:74-81: what the default branch writes with
\* console.warn for one entry
generateGS1Barcode_warn(ai) ==
    IF ai \notin SwitchCases /\ ~RegexDigitsPlus(ai)
    THEN <<"Unknown GS1 AI: " \o ai>>
    ELSE <<>>

\* the body of the for loop of generateGS1Barcode, entries 1..n done:
\* the string built and the lines written with console.warn
RECURSIVE generateGS1Barcode_loop(_, _, _)
generateGS1Barcode_loop(entries, n, tz) ==
    IF n = 0 THEN [gs1DataString |-> "", warnings |-> <<>>]
    ELSE LET done == generateGS1Barcode_loop(entries, n - 1, tz)
             key == entries[n][1]
             value == entries[n][2]
             ai == toUpperCase(key)
         IN  IF Nullish(value) THEN done
             ELSE [gs1DataString |->
                       done.gs1DataString \o generateGS1Barcode_switch(ai, value, tz),
                   warnings |-> done.warnings \o generateGS1Barcode_warn(ai)]

\* src/lib/barcodeGenerator.js:12-101. bwipjs.toBuffer is a library outside
\* the repository: it gives a PNG buffer or an error (bwip). The completion
\* carries, as text, the barcodeOptions.text handed to bwipjs.toBuffer.
generateGS1Barcode(data, tz, bwip) ==
    LET entries == ObjectEntries(data)
        built == generateGS1Barcode_loop(entries, Len(entries), tz)
    IN  IF bwip = "png"
        THEN [completion |-> [threw |-> FALSE, value |-> "png",
                              text |-> built.gs1DataString],
              console |-> built.warnings]
        ELSE [completion |-> [threw |-> TRUE, value |-> "bwip-js error",
                              text |-> built.gs1DataString],
              console |-> built.warnings \o <<"Error generating GS1-128 barcode:">>]

-----------------------------------------------------------------------------
(* One call of an assembler *)

AssemblerKeys ==
    {"01", "10", "11", "3103", "GTIN", "batch_lot", "PROD_DATE", "QTY", "WEIGHT_KG", "FOO"}

DateValues == {DateObj(2024, 2, 5), Str("2024-03-05"), Str("not a date")}

Timezones == {-5, 0}       \* the offset of local time from UTC, in hours

\* the value the caller gives under a key, when it gives one
ValueOf(key, date) ==
    CASE key = "01" -> Str("00012345678905")
      [] key = "10" -> Str("LOT42")
      [] key = "11" -> Str("240305")
      [] key = "3103" -> Str("001500")
      [] key = "GTIN" -> Str("00012345678905")
      [] key = "batch_lot" -> Str("LOT42")
      [] key = "PROD_DATE" -> date
      [] key = "QTY" -> Num(42)
      [] key = "WEIGHT_KG" -> Dec(15, 1)
      [] key = "FOO" -> Str("bar")
      [] key = "10a" -> Str("qux")

KeySeqs(n) ==
    {ks \in [1..n -> AssemblerKeys] : \A i, j \in 1..n : i # j => ks[i] # ks[j]}

\* the object with the keys ks in this order: each value given, or none
ObjectOf(ks, given, none, date) ==
    [i \in DOMAIN ks |-> <<ks[i], IF i \in given THEN ValueOf(ks[i], date) ELSE none>>]

HasType(obj, t) == \E i \in 1..Len(obj) : obj[i][2].type = t

HasDateString(obj) ==
    \E i \in 1..Len(obj) : obj[i][1] = "PROD_DATE" /\ obj[i][2].type = "string"

InitAssemble ==
    /\ pc = "called"
    /\ ret = NoRet
    /\ console = <<>> /\ AppIdle
    /\ mod = "utils"
    /\ fn \in {"createGS1DataMatrix", "createGS1BarcodeString"}
    /\ \E n \in 0..MaxElems : \E ks \in KeySeqs(n) : \E given \in SUBSET (1..n) :
          \E none \in {Null, Undefined} : \E date \in DateValues : \E tz \in Timezones :
             /\ arg = [data |-> ObjectOf(ks, given, none, date), tz |-> tz]
             /\ arg.tz # 0 => HasDateString(arg.data)
    \* String(date object) is not modelled: createGS1DataMatrix gets no Date
    /\ fn = "createGS1DataMatrix" => ~HasType(arg.data, "Date")

CallCreateGS1DataMatrix ==
    /\ pc = "called" /\ fn = "createGS1DataMatrix"
    /\ ret' = createGS1DataMatrix(arg.data)
    /\ pc' = "returned"
    /\ UNCHANGED <<fn, mod, arg, console, appVars>>

CallCreateGS1BarcodeString ==
    /\ pc = "called" /\ fn = "createGS1BarcodeString"
    /\ ret' = createGS1BarcodeString(arg.data, arg.tz)
    /\ console' = LET entries == ObjectEntries(arg.data)
                  IN  createGS1BarcodeString_warnings(entries, Len(entries))
    /\ pc' = "returned"
    /\ UNCHANGED <<fn, mod, arg, appVars>>

CallGenerateGS1Barcode ==
    /\ pc = "called" /\ fn = "generateGS1Barcode"
    /\ \E bwip \in {"png", "error"} :
          LET done == generateGS1Barcode(arg.data, arg.tz, bwip)
          IN  ret' = done.completion /\ console' = done.console
    /\ pc' = "returned"
    /\ UNCHANGED <<fn, mod, arg, appVars>>

NextAssemble == CallCreateGS1DataMatrix \/ CallCreateGS1BarcodeString

SpecAssemble == InitAssemble /\ [][NextAssemble]_vars

-----------------------------------------------------------------------------
(* One call of a barcode assembler with known, numeric and unknown keys *)

BarcodeKeys == {"3103", "10", "GTIN", "PROD_DATE", "FOO", "10a"}

BarcodeKeySeqs(n) ==
    {ks \in [1..n -> BarcodeKeys] : \A i, j \in 1..n : i # j => ks[i] # ks[j]}

InitBarcode ==
    /\ pc = "called"
    /\ ret = NoRet
    /\ console = <<>> /\ AppIdle
    /\ \/ mod = "utils" /\ fn = "createGS1BarcodeString"
       \/ mod = "barcode" /\ fn = "generateGS1Barcode"
    /\ \E n \in 0..MaxElems : \E ks \in BarcodeKeySeqs(n) : \E given \in SUBSET (1..n) :
          \E none \in {Null, Undefined} : \E date \in DateValues : \E tz \in Timezones :
             /\ arg = [data |-> ObjectOf(ks, given, none, date), tz |-> tz]
             /\ arg.tz # 0 => HasDateString(arg.data)

NextBarcode == CallCreateGS1BarcodeString \/ CallGenerateGS1Barcode

SpecBarcode == InitBarcode /\ [][NextBarcode]_vars

-----------------------------------------------------------------------------
(* A caller that makes several calls of src/lib/utils/gs1Utils.js one after *)
(* the other. The functions are synchronous, so calls never overlap; what   *)
(* one call can leave to the next is the object the caller passes by        *)
(* reference and the Math.random stream. The file declares functions only:  *)
(* there is no binding at module level.                                     *)

MaxCalls == 3          \* most calls one caller makes

\* a function that would drop the entries it skips from the caller's object
createGS1BarcodeString_data_pruned(data) == SelectSeq(data, LAMBDA e : ~Nullish(e[2]))

\* src/lib/utils/gs1Utils.js:217-281: the caller's object after the call; the
\* body reads Object.entries(data) and assigns to its own locals only
createGS1BarcodeString_data(data) == data

\* src/lib/utils/gs1Utils.js:159-182: the caller's object after the call; the
\* body reads Object.keys(dataElements) and dataElements[ai] only
createGS1DataMatrix_dataElements(dataElements) == dataElements

\* src/lib/utils/gs1Utils.js:58-80: how many times the call runs Math.random()
generateSSCC_draws(companyPrefixArg, extensionDigitArg) ==
    LET companyPrefix == DefaultNull(companyPrefixArg)
        extensionDigit == DefaultNull(extensionDigitArg)
        d1 == IF Falsy(companyPrefix) THEN 1 ELSE 0
        d2 == IF generateSSCC_extensionGiven(extensionDigit) THEN d1 ELSE d1 + 1
        prefixLength == IF Falsy(companyPrefix) THEN 7 ELSE Len(companyPrefix.val)
        serialLength == 17 - prefixLength - 1
    IN  d2 + (IF serialLength > 0 THEN serialLength ELSE 0)

\* the Math.random stream after n draws
Drawn(rnd, n) == [rnd EXCEPT !.seed = Random(rnd, n)]

\* the objects the caller builds
SeqObjects ==
    { <<>>,
      <<<<"GTIN", Str("00012345678905")>>, <<"10", Str("LOT42")>>>>,
      <<<<"10", Str("LOT42")>>, <<"FOO", Null>>, <<"3103", Str("001500")>>>>,
      <<<<"PROD_DATE", Str("2024-03-05")>>, <<"10a", Undefined>>>> }

\* the arguments the caller writes, one or two for each function
SeqArgs(f) ==
    CASE f = "validateGTIN" -> {[gtin |-> Str("00012345678905")]}
      [] f = "validateSSCC" -> {[sscc |-> Str("000000000000000000")]}
      [] f = "validateLotNumber" -> {[lotNumber |-> Str("LOT42")]}
      [] f = "calculateGS1CheckDigit" ->
             {[digits |-> Str("0001234567890")], [digits |-> Str("12a")]}
      [] f = "generateSSCC" ->
             {[companyPrefix |-> Undefined, extensionDigit |-> Undefined],
              [companyPrefix |-> Str("0614141"), extensionDigit |-> Num(3)]}
      [] f = "formatGS1Date" -> {[date |-> DateObj(2024, 2, 5), tz |-> 0]}
      [] f = "formatGS1Weight" -> {[weight |-> Dec(15, 1), decimalPlaces |-> Num(3)]}

\* what the call of f returns when nothing else has been called: a.data is the
\* object and a.rnd the Math.random stream handed to this call
Alone(f, a) ==
    CASE f = "validateGTIN" -> validateGTIN(a.gtin)
      [] f = "validateSSCC" -> validateSSCC(a.sscc)
      [] f = "validateLotNumber" -> validateLotNumber(a.lotNumber)
      [] f = "calculateGS1CheckDigit" -> calculateGS1CheckDigit(a.digits)
      [] f = "generateSSCC" -> generateSSCC(a.companyPrefix, a.extensionDigit, a.rnd)
      [] f = "formatGS1Date" -> Return(formatGS1Date(a.date, a.tz))
      [] f = "formatGS1Weight" ->
             Return(formatGS1Weight(a.weight, DefaultZero(a.decimalPlaces)))
      [] f = "createGS1DataMatrix" -> createGS1DataMatrix(a.data)
      [] f = "createGS1BarcodeString" -> createGS1BarcodeString(a.data, a.tz)

LibIdle ==
    /\ pc = "idle" /\ fn = "" /\ mod = "utils" /\ arg = <<>> /\ ret = NoRet
    /\ console = <<>>

InitSeq ==
    /\ LibIdle
    /\ Unused(page) /\ Unused(server) /\ Unused(labels)
    /\ \E data \in SeqObjects : \E seed \in {0, RandDenom - 1} :
          heap = [random |-> [seed |-> seed, step |-> 7],
                  data |-> data,       \* the caller's object as it is now
                  given |-> data,      \* the caller's object as the caller built it
                  done |-> <<>>]       \* the calls made, with what each returned

\* the call f(a) returned r, left the caller's object as dataAfter, drew n numbers
SeqRecord(f, a, r, dataAfter, n) ==
    heap' = [heap EXCEPT !.done = Append(@, [fn |-> f, arg |-> a, ret |-> r]),
                         !.data = dataAfter,
                         !.random = Drawn(@, n)]

\* a call of one of the functions that take strings, numbers and dates
SeqCallScalar ==
    /\ Len(heap.done) < MaxCalls
    /\ \E f \in {"validateGTIN", "validateSSCC", "validateLotNumber",
                 "calculateGS1CheckDigit", "formatGS1Date", "formatGS1Weight"} :
          \E a \in SeqArgs(f) : SeqRecord(f, a, Alone(f, a), heap.data, 0)
    /\ UNCHANGED <<libVars, page, server, labels>>

SeqCallGenerateSSCC ==
    /\ Len(heap.done) < MaxCalls
    /\ \E a \in SeqArgs("generateSSCC") :
          SeqRecord("generateSSCC",
                    [companyPrefix |-> a.companyPrefix,
                     extensionDigit |-> a.extensionDigit, rnd |-> heap.random],
                    generateSSCC(a.companyPrefix, a.extensionDigit, heap.random),
                    heap.data,
                    generateSSCC_draws(a.companyPrefix, a.extensionDigit))
    /\ UNCHANGED <<libVars, page, server, labels>>

SeqCallCreateGS1DataMatrix ==
    /\ Len(heap.done) < MaxCalls
    /\ SeqRecord("createGS1DataMatrix", [data |-> heap.given],
                 createGS1DataMatrix(heap.data),
                 createGS1DataMatrix_dataElements(heap.data), 0)
    /\ UNCHANGED <<libVars, page, server, labels>>

SeqCallCreateGS1BarcodeString ==
    /\ Len(heap.done) < MaxCalls
    /\ SeqRecord("createGS1BarcodeString", [data |-> heap.given, tz |-> 0],
                 createGS1BarcodeString(heap.data, 0),
                 createGS1BarcodeString_data(heap.data), 0)
    /\ console' = console \o LET entries == ObjectEntries(heap.data)
                             IN  createGS1BarcodeString_warnings(entries, Len(entries))
    /\ UNCHANGED <<pc, fn, mod, arg, ret, page, server, labels>>

NextSeq ==
    \/ SeqCallScalar
    \/ SeqCallGenerateSSCC
    \/ SeqCallCreateGS1DataMatrix
    \/ SeqCallCreateGS1BarcodeString

SpecSeq == InitSeq /\ [][NextSeq]_vars

-----------------------------------------------------------------------------
(* The GTIN checks: validateGTIN of the two library modules and the         *)
(* validateGtinInput of the form page, which the file holds in two versions *)

\* gtin.replace(/\D/g, '')
RECURSIVE RemoveNonDigits(_)
RemoveNonDigits(s) ==
    IF s = "" THEN ""
    ELSE (IF CharAt(s, 0) \in DigitChars THEN CharAt(s, 0) ELSE "")
             \o RemoveNonDigits(SubSeq(s, 2, Len(s)))

\* src/routes/+page.svelte:484
validateGtinInput_multiplier(i) == IF i % 2 = 0 THEN 1 ELSE 3

\* src/routes/+page.svelte:1107
validateGtinInput_v3_multiplier(i) == IF i % 2 = 0 THEN 3 ELSE 1

\* src/routes/+page.svelte:456-498: the component variables gtin and
\* gtinError after the call
validateGtinInput(gtin, gtinError) ==
    IF Len(gtin) = 0 THEN [gtin |-> gtin, gtinError |-> ""]
    ELSE IF ~RegexDigitsStar(gtin)
    THEN [gtin |-> RemoveNonDigits(gtin),
          gtinError |-> "GTIN must contain only digits (0-9)"]
    ELSE IF Len(gtin) < 14
    THEN [gtin |-> gtin,
          gtinError |-> "GTIN must be 14 digits (" \o ToString(14 - Len(gtin))
                            \o " more needed)"]
    ELSE IF Len(gtin) = 14
    THEN LET sum == SumTo([i \in 0..12 |-> parseInt(CharAt(gtin, i)) * validateGtinInput_multiplier(i)], 13)
             expectedCheckDigit == (10 - (sum % 10)) % 10
             actualCheckDigit == parseInt(CharAt(gtin, 13))
         IN  [gtin |-> gtin,
              gtinError |-> IF expectedCheckDigit # actualCheckDigit
                            THEN "Invalid check digit. Expected: "
                                     \o ToString(expectedCheckDigit)
                            ELSE ""]
    ELSE [gtin |-> gtin, gtinError |-> gtinError]

\* src/routes/+page.svelte:1079-1120: the component variables gtin and
\* gtinError after the call
validateGtinInput_v3(gtin, gtinError) ==
    IF Len(gtin) = 0 THEN [gtin |-> gtin, gtinError |-> ""]
    ELSE IF ~RegexDigitsStar(gtin)
    THEN [gtin |-> RemoveNonDigits(gtin),
          gtinError |-> "GTIN must contain only digits (0-9)"]
    ELSE IF Len(gtin) < 14
    THEN [gtin |-> gtin,
          gtinError |-> "GTIN must be 14 digits (" \o ToString(14 - Len(gtin))
                            \o " more needed)"]
    ELSE IF Len(gtin) = 14
    THEN LET sum == SumTo([i \in 0..12 |-> parseInt(CharAt(gtin, i)) * validateGtinInput_v3_multiplier(i)], 13)
             expectedCheckDigit == (10 - (sum % 10)) % 10
             actualCheckDigit == parseInt(CharAt(gtin, 13))
         IN  [gtin |-> gtin,
              gtinError |-> IF expectedCheckDigit # actualCheckDigit
                            THEN "Invalid check digit. Expected: "
                                     \o ToString(expectedCheckDigit)
                            ELSE ""]
    ELSE [gtin |-> gtin, gtinError |-> gtinError]

\* what is typed into the GTIN field or handed to validateGTIN
GtinInputs ==
    ValidateInputs(14) \cup {Str(""), Str("12a4"), Str("123"), Str("000123456789051")}

InitGtin ==
    /\ pc = "called" /\ ret = NoRet /\ console = <<>>
    /\ Unused(heap) /\ Unused(server) /\ Unused(labels)
    /\ \E v \in GtinInputs :
          \/ /\ fn = "validateGTIN" /\ mod \in {"lib", "utils"}
             /\ arg = [gtin |-> v]
             /\ page = <<>>
          \/ /\ fn = "validateGtinInput" /\ mod \in {"page", "page_v3"}
             /\ arg = [gtin |-> v]      \* the field as typed
             /\ page = [gtin |-> v.val, gtinError |-> ""]

CallValidateGtinInput ==
    /\ pc = "called" /\ fn = "validateGtinInput"
    /\ page' = IF mod = "page" THEN validateGtinInput(page.gtin, page.gtinError)
                               ELSE validateGtinInput_v3(page.gtin, page.gtinError)
    /\ ret' = Return("undefined")
    /\ pc' = "returned"
    /\ UNCHANGED <<fn, mod, arg, console, heap, server, labels>>

NextGtin == CallValidateGTIN \/ CallValidateGtinInput

SpecGtin == InitGtin /\ [][NextGtin]_vars

-----------------------------------------------------------------------------
(* The form page: handleSubmit of src/routes/+page.svelte. Version "inline" *)
(* (src/routes/+page.svelte:2-324) builds the PDF in the handler and reads  *)
(* sscc when it draws it; version "pdfGenerator" (the later file with       *)
(* generateAndDownloadLabel) copies sscc into labelData before its await.   *)
(* An SSCC is identified by the number of the generateSSCC call that made   *)
(* it: the page makes call 1 when it loads.                                 *)

MaxSubmits == 5        \* most submissions of the form in one behaviour

\* a submit button that is never disabled
handleSubmit_enabled_always(p) == TRUE

\* disabled={isGenerating} on the submit button of the form: the submit event
\* reaches handleSubmit only while isGenerating is false
handleSubmit_enabled(p) == ~p.isGenerating

\* handleSubmit up to its first await; the invocation is in flight from here
handleSubmit_start(p) ==
    [p EXCEPT !.isGenerating = TRUE,
              !.error = Null,
              !.success = Null,
              !.submits = @ + 1,
              !.tasks = @ \cup {[id |-> p.submits + 1,
                                 shown |-> p.sscc,
                                 sscc |-> IF p.version = "pdfGenerator"
                                          THEN p.sscc     \* labelData = { ..., sscc, ... }
                                          ELSE 0]}]       \* not read yet

\* version "inline": page.drawText(sscc, ...) after the first awaits
handleSubmit_draw(p, t) ==
    [p EXCEPT !.tasks = (@ \ {t}) \cup {[t EXCEPT !.sscc = p.sscc]}]

\* the awaited work is done and the label downloaded: the rest of the try
\* block, then the finally block
handleSubmit_resolved(p, t) ==
    [p EXCEPT !.ssccCalls = @ + 1,
              !.sscc = p.ssccCalls + 1,                 \* sscc = generateSSCC()
              !.success = Str("GS1-128 label generated successfully!"),
              !.isGenerating = FALSE,
              !.tasks = @ \ {t},
              !.log = Append(@, [id |-> t.id, shown |-> t.shown, sscc |-> t.sscc,
                                 outcome |-> "resolved"])]

\* a catch block that reports nothing
handleSubmit_rejected_silent(p, t) ==
    [p EXCEPT !.isGenerating = FALSE,
              !.tasks = @ \ {t},
              !.log = Append(@, [id |-> t.id, shown |-> t.shown, sscc |-> 0,
                                 outcome |-> "rejected"])]

\* an awaited promise rejected: the catch block, then the finally block
handleSubmit_rejected(p, t) ==
    [p EXCEPT !.error = Str("Error generating label. Please try again."),
              !.isGenerating = FALSE,
              !.tasks = @ \ {t},
              !.log = Append(@, [id |-> t.id, shown |-> t.shown, sscc |-> 0,
                                 outcome |-> "rejected"])]

InitSubmit ==
    /\ LibIdle
    /\ Unused(heap) /\ Unused(server) /\ Unused(labels)
    /\ \E version \in {"inline", "pdfGenerator"} :
          page = [version |-> version,
                  sscc |-> 1,             \* let sscc = generateSSCC()
                  ssccCalls |-> 1,
                  isGenerating |-> FALSE,
                  error |-> Null,
                  success |-> Null,
                  submits |-> 0,          \* submit events handled
                  tasks |-> {},           \* invocations of handleSubmit in flight
                  log |-> <<>>]           \* invocations that have finished

\* the user submits the form
HandleSubmit ==
    /\ page.submits < MaxSubmits
    /\ handleSubmit_enabled(page)
    /\ page' = handleSubmit_start(page)
    /\ UNCHANGED <<libVars, heap, server, labels>>

HandleSubmitDraw ==
    /\ \E t \in page.tasks :
          /\ t.sscc = 0
          /\ page' = handleSubmit_draw(page, t)
    /\ UNCHANGED <<libVars, heap, server, labels>>

HandleSubmitResolved ==
    /\ \E t \in page.tasks :
          /\ t.sscc # 0
          /\ page' = handleSubmit_resolved(page, t)
    /\ UNCHANGED <<libVars, heap, server, labels>>

HandleSubmitRejected ==
    /\ \E t \in page.tasks : page' = handleSubmit_rejected(page, t)
    /\ console' = (IF page.version = "pdfGenerator"
                   THEN Append(console, "Error generating PDF:")
                   ELSE console)
                      \o <<IF page.version = "pdfGenerator"
                           THEN "Error generating label:" ELSE "Error generating PDF:">>
    /\ UNCHANGED <<pc, fn, mod, arg, ret, heap, server, labels>>

NextSubmit ==
    \/ HandleSubmit
    \/ HandleSubmitDraw
    \/ HandleSubmitResolved
    \/ HandleSubmitRejected

SpecSubmit == InitSubmit /\ [][NextSubmit]_vars

-----------------------------------------------------------------------------
(* The preview endpoint, src/routes/api/pdf/preview/+server.js: POST makes  *)
(* a preview PDF and stores it, GET serves a stored PDF, a timer deletes    *)
(* old files. pdfRateLimiter, verifyToken, validateLabelForm, request.json  *)
(* and generateLogisticLabelPDF are outside the file: each answers in any   *)
(* of the ways its caller distinguishes. A request carries the list of the  *)
(* calls made for it, in order.                                             *)

MaxRequests == 3       \* most requests in one behaviour
MaxTicks == 3          \* the clock advances at most this many half hours
MaxInFlight == 1       \* most POST requests waiting at an await at one time
MaxCleanups == 1       \* most runs of the cleanup timer

PREVIEW_MAX_AGE == 3600000

Tokens == {"missing", "invalid", "valid"}    \* the authToken cookie

\* POST without the verifyToken test
POST_authenticate_noVerify(token) ==
    IF token = "missing"
    THEN [status |-> 401, calls |-> <<"cookies.get">>]
    ELSE [status |-> 0, calls |-> <<"cookies.get">>]

\* +server.js:49-60 (POST): 0 stands for "no response yet"
POST_authenticate(token) ==
    IF token = "missing"
    THEN [status |-> 401, calls |-> <<"cookies.get">>]
    ELSE IF token = "invalid"
    THEN [status |-> 401, calls |-> <<"cookies.get", "verifyToken">>]
    ELSE [status |-> 0, calls |-> <<"cookies.get", "verifyToken">>]

\* +server.js:138-149 (GET)
GET_authenticate(token) ==
    IF token = "missing"
    THEN [status |-> 401, calls |-> <<"cookies.get">>]
    ELSE IF token = "invalid"
    THEN [status |-> 401, calls |-> <<"cookies.get", "verifyToken">>]
    ELSE [status |-> 0, calls |-> <<"cookies.get", "verifyToken">>]

\* crypto.createHash('md5').update(JSON.stringify(previewLabelData)): the
\* hash is identified with the data hashed (two md5 values are taken to be
\* equal only for equal data): the form data, the SSCC, created_at
HashOf(data, sscc, created_at) == [data |-> data, sscc |-> sscc, created_at |-> created_at]

NoHash == [data |-> "", sscc |-> 0, created_at |-> 0]

FileOf(files, hash) == {f \in files : f.hash = hash}

\* the cleanup pass over the files examined before the pass ended: the files
\* whose age is above PREVIEW_MAX_AGE are unlinked
cleanup_forEach(files, examined, now) ==
    files \ {f \in examined : now - f.mtimeMs > PREVIEW_MAX_AGE}

InitServer ==
    /\ LibIdle
    /\ Unused(heap) /\ Unused(page) /\ Unused(labels)
    /\ server = [now |-> 0,              \* Date.now(), in milliseconds
                 files |-> {},           \* the files of PREVIEW_DIR
                 posts |-> {},           \* POST requests waiting at an await
                 answered |-> {},        \* the requests answered
                 requests |-> 0,
                 cleanups |-> 0,
                 removed |-> {},         \* hashes of the files cleanup unlinked and
                                         \* no POST has written again
                 lastCleanup |-> <<>>]   \* what the last cleanup pass met

Answer(req, status, calls, hash, body) ==
    [method |-> req.method, token |-> req.token,
     limited |-> req.limited, valid |-> req.valid,
     status |-> status, calls |-> calls, hash |-> hash, body |-> body,
     stored |-> IF req.method = "GET" THEN FileOf(server.files, hash) ELSE {}]

\* POST, +server.js:44-63: up to `await request.json()`
PostBegin ==
    /\ server.requests < MaxRequests
    /\ Cardinality(server.posts) < MaxInFlight
    /\ \E token \in Tokens, limited \in BOOLEAN :
          LET req == [method |-> "POST", token |-> token,
                      limited |-> limited, valid |-> "unasked"]
              auth == POST_authenticate(token)
          IN  IF limited
              THEN server' = [server EXCEPT
                      !.requests = @ + 1,
                      !.answered = @ \cup {Answer(req, 429, <<"pdfRateLimiter">>,
                                                  NoHash, NoHash)}]
              ELSE IF auth.status # 0
              THEN server' = [server EXCEPT
                      !.requests = @ + 1,
                      !.answered = @ \cup {Answer(req, auth.status,
                                                  <<"pdfRateLimiter">> \o auth.calls,
                                                  NoHash, NoHash)}]
              ELSE server' = [server EXCEPT
                      !.requests = @ + 1,
                      !.posts = @ \cup {[req |-> req, phase |-> "json", hash |-> NoHash,
                                         calls |-> <<"pdfRateLimiter">> \o auth.calls
                                                       \o <<"request.json">>]}]
    /\ UNCHANGED <<libVars, heap, page, labels>>

\* POST, +server.js:64-104: from the body parsed to `await generateLogisticLabelPDF`
PostParsed ==
    /\ \E p \in server.posts :
          /\ p.phase = "json"
          /\ \E body \in {"object", "malformed"}, valid \in {"yes", "no"}, sscc \in {1, 2} :
                IF body = "malformed"
                THEN /\ valid = "yes" /\ sscc = 1
                     /\ server' = [server EXCEPT
                           !.posts = @ \ {p},
                           !.answered = @ \cup {Answer(p.req, 500, p.calls, NoHash, NoHash)}]
                     /\ console' = Append(console, "Preview generation error:")
                ELSE IF valid = "no"
                THEN /\ sscc = 1
                     /\ server' = [server EXCEPT
                           !.posts = @ \ {p},
                           !.answered = @ \cup
                               {Answer([p.req EXCEPT !.valid = "no"], 400,
                                       p.calls \o <<"validateLabelForm">>, NoHash, NoHash)}]
                     /\ console' = console
                ELSE /\ server' = [server EXCEPT
                           !.posts = (@ \ {p}) \cup
                               {[req |-> [p.req EXCEPT !.valid = "yes"],
                                 phase |-> "pdf",
                                 hash |-> HashOf("label A", sscc, server.now),
                                 calls |-> p.calls \o <<"validateLabelForm",
                                              "sanitizeLabelForm", "generateSSCC",
                                              "generateLogisticLabelPDF">>]}]
                     /\ console' = console
    /\ UNCHANGED <<pc, fn, mod, arg, ret, heap, page, labels>>

\* POST, +server.js:105-133: from the PDF made, or not, to the response
PostGenerated ==
    /\ \E p \in server.posts :
          /\ p.phase = "pdf"
          /\ \E pdf \in {"buffer", "error"} :
                IF pdf = "error"
                THEN /\ server' = [server EXCEPT
                           !.posts = @ \ {p},
                           !.answered = @ \cup {Answer(p.req, 500, p.calls, NoHash, NoHash)}]
                     /\ console' = Append(console, "Preview generation error:")
                ELSE /\ server' = [server EXCEPT
                           !.posts = @ \ {p},
                           !.removed = @ \ {p.hash},
                           !.files = (@ \ FileOf(@, p.hash))
                                         \cup {[hash |-> p.hash, mtimeMs |-> server.now,
                                                pdf |-> p.hash]},
                           !.answered = @ \cup
                               {Answer(p.req, 200, p.calls \o <<"writeFileSync">>,
                                       p.hash, NoHash)}]
                     /\ console' = console
    /\ UNCHANGED <<pc, fn, mod, arg, ret, heap, page, labels>>

\* the hashes a client may ask for: those of the previews made, and another
KnownHashes ==
    {r.hash : r \in {a \in server.answered : a.method = "POST" /\ a.status = 200}}
        \cup {HashOf("label C", 1, 0)}

\* GET, +server.js:137-174
Get ==
    /\ server.requests < MaxRequests
    /\ \E token \in Tokens, hash \in KnownHashes :
          LET req == [method |-> "GET", token |-> token,
                      limited |-> FALSE, valid |-> "unasked"]
              auth == GET_authenticate(token)
              found == FileOf(server.files, hash)
          IN  server' = [server EXCEPT
                 !.requests = @ + 1,
                 !.answered = @ \cup
                     {IF auth.status # 0
                      THEN Answer(req, auth.status, auth.calls, hash, NoHash)
                      ELSE IF found = {}
                      THEN Answer(req, 404, auth.calls \o <<"existsSync">>, hash, NoHash)
                      ELSE Answer(req, 200,
                                  auth.calls \o <<"existsSync", "readFileSync">>, hash,
                                  (CHOOSE f \in found : TRUE).pdf)}]
    /\ UNCHANGED <<libVars, heap, page, labels>>

\* the setInterval callback, +server.js:25-42: one try block around the whole
\* pass. statSync or unlinkSync may throw at a file (failed): the pass ends
\* there, after the files that readdirSync listed before it (examined)
Cleanup ==
    /\ server.cleanups < MaxCleanups
    /\ server.files # {}
    /\ \E failed \in SUBSET server.files :
          /\ Cardinality(failed) <= 1
          /\ \E examined \in SUBSET (server.files \ failed) :
                /\ failed = {} => examined = server.files
                /\ server' = [server EXCEPT
                      !.cleanups = @ + 1,
                      !.files = cleanup_forEach(@, examined, server.now),
                      !.removed = @ \cup {f.hash : f \in server.files
                                              \ cleanup_forEach(server.files, examined,
                                                                server.now)},
                      !.lastCleanup = [now |-> server.now, files |-> server.files,
                                       failed |-> failed,
                                       left |-> cleanup_forEach(server.files, examined,
                                                                server.now)]]
          /\ console' = IF failed = {} THEN console
                        ELSE Append(console, "Error cleaning up preview files:")
    /\ UNCHANGED <<pc, fn, mod, arg, ret, heap, page, labels>>

\* half an hour passes
Tick ==
    /\ server.now < MaxTicks * (PREVIEW_MAX_AGE \div 2)
    /\ server' = [server EXCEPT !.now = @ + PREVIEW_MAX_AGE \div 2]
    /\ UNCHANGED <<libVars, heap, page, labels>>

NextServer ==
    \/ PostBegin
    \/ PostParsed
    \/ PostGenerated
    \/ Get
    \/ Cleanup
    \/ Tick

SpecServer == InitServer /\ [][NextServer]_vars

\* the requests alone: no time passes and the cleanup timer does not fire
NextRequests ==
    \/ PostBegin
    \/ PostParsed
    \/ PostGenerated
    \/ Get

SpecRequests == InitServer /\ [][NextRequests]_vars

-----------------------------------------------------------------------------
(* The labels page, src/routes/labels/+page.svelte, and its child component *)
(* src/lib/components/Labels/LabelPreview.svelte. The page hands labelData  *)
(* and previewUrl down with <LabelPreview {labelData} {previewUrl} />, a    *)
(* one-way binding: the child receives a prop again when the page's value   *)
(* changes, and what the child assigns to its own previewUrl stays in the   *)
(* child. A submitted form is identified by its number.                     *)

MaxForms == 3          \* most submissions of the label form
MaxRetries == 1        \* most clicks on 'Try again'

\* the URL the preview endpoint answers for the form data n
PreviewUrlOf(n) == Str("/api/pdf/preview/" \o ToString(n))

\* LabelPreview.svelte:21-35, generatePreview up to `await fetch(...)`
generatePreview_start(l) ==
    IF l.preview.labelData = Null THEN l
    ELSE [l EXCEPT !.preview.isLoading = TRUE,
                   !.preview.error = Null,
                   !.fetched = @ + 1,
                   !.fetches = @ \cup {[id |-> l.fetched + 1,
                                        body |-> l.preview.labelData]}]

\* LabelPreview.svelte:15-18, the reactive statement: it runs after labelData
\* or previewUrl of the component has changed
LabelPreview_reactive(l) ==
    IF l.preview.labelData # Null /\ l.preview.previewUrl = Null
    THEN generatePreview_start(l)
    ELSE l

\* labels/+page.svelte:18-24, handleSubmit, and the update of the child that
\* follows: labelData is a new object, so the prop is handed down again;
\* previewUrl of the page was null and is null, so that prop is not
labels_handleSubmit(l, formData) ==
    LabelPreview_reactive(
        [l EXCEPT !.labelData = formData,
                  !.success = Null,
                  !.error = Null,
                  !.previewUrl = Null,
                  !.forms = @ + 1,
                  !.preview.labelData = formData])

\* LabelPreview.svelte:37-50, the response is ok: previewUrl of the component
\* is assigned, the reactive statement runs again, isLoading is cleared
generatePreview_resolved(l, f) ==
    LET assigned == [l EXCEPT !.fetches = @ \ {f},
                              !.preview.previewUrl = PreviewUrlOf(f.body.form),
                              !.preview.isLoading = FALSE]
    IN  LabelPreview_reactive(assigned)

\* LabelPreview.svelte:37-50, the response is not ok or fetch rejected
generatePreview_rejected(l, f) ==
    [l EXCEPT !.fetches = @ \ {f},
              !.preview.error = Str("Failed to generate preview"),
              !.preview.isLoading = FALSE]

InitLabels ==
    /\ LibIdle
    /\ Unused(heap) /\ Unused(page) /\ Unused(server)
    /\ labels = [labelData |-> Null,        \* the page
                 previewUrl |-> Null,
                 error |-> Null,
                 success |-> Null,
                 preview |-> [labelData |-> Null,      \* the LabelPreview component
                              previewUrl |-> Null,
                              isLoading |-> FALSE,
                              error |-> Null],
                 fetches |-> {},           \* preview requests in flight
                 fetched |-> 0,            \* preview requests sent
                 forms |-> 0,              \* forms submitted
                 retries |-> 0]

\* LabelForm dispatches submit
LabelsHandleSubmit ==
    /\ labels.forms < MaxForms
    /\ labels' = labels_handleSubmit(labels, [form |-> labels.forms + 1])
    /\ UNCHANGED <<libVars, heap, page, server>>

PreviewResolved ==
    /\ \E f \in labels.fetches : labels' = generatePreview_resolved(labels, f)
    /\ UNCHANGED <<libVars, heap, page, server>>

PreviewRejected ==
    /\ \E f \in labels.fetches : labels' = generatePreview_rejected(labels, f)
    /\ console' = Append(console, "Preview generation error:")
    /\ UNCHANGED <<pc, fn, mod, arg, ret, heap, page, server>>

\* LabelPreview.svelte:112-121: 'Try again' is shown with the error
PreviewTryAgain ==
    /\ labels.retries < MaxRetries
    /\ ~labels.preview.isLoading /\ labels.preview.error # Null
    /\ labels' = generatePreview_start([labels EXCEPT !.retries = @ + 1])
    /\ UNCHANGED <<libVars, heap, page, server>>

NextLabels ==
    \/ LabelsHandleSubmit
    \/ PreviewResolved
    \/ PreviewRejected
    \/ PreviewTryAgain

SpecLabels == InitLabels /\ [][NextLabels]_vars

\* every preview request is answered in the end
SpecLabelsFair == SpecLabels /\ WF_vars(PreviewResolved \/ PreviewRejected)

-----------------------------------------------------------------------------
(* Properties of the check digit functions (SpecCheck) *)

Returned(f) == pc = "returned" /\ fn = f

\* a non-empty string made only of the characters '0'..'9'
IsDigitString(v) ==
    /\ v.type = "string"
    /\ v.val # ""
    /\ \A i \in 1..Len(v.val) : SubSeq(v.val, i, i) \in DigitChars

\* the sum of the digits of s at the 0-based indexes in I
RECURSIVE SumDigitsAt(_, _)
SumDigitsAt(s, I) ==
    IF I = {} THEN 0
    ELSE LET i == CHOOSE x \in I : TRUE
         IN  parseInt(CharAt(s, i)) + SumDigitsAt(s, I \ {i})

EvenIndexes(s) == {i \in 0..(Len(s) - 1) : i % 2 = 0}
OddIndexes(s) == {i \in 0..(Len(s) - 1) : i % 2 = 1}

\* what the module of the call computes as the check digit of the digit string d
CheckDigitOf(m, d) ==
    IF m = "utils" THEN calculateGS1CheckDigit(Str(d)).value
                   ELSE calculateGS1CheckDigit_lib(Str(d)).value

\* C1: in each module, for every 14-digit string s, validateGTIN(s) is true
\* exactly when calculateGS1CheckDigit(s[0..12]) equals the digit s[13]; so
\* validateGTIN(d + calculateGS1CheckDigit(d)) is true for every 13-digit d.
C1_ValidateGTINAgreesWithCheckDigit ==
    (Returned("validateGTIN") /\ IsDigitString(arg.gtin) /\ Len(arg.gtin.val) = 14)
        => (ret.value <=> (CheckDigitOf(mod, SubSeq(arg.gtin.val, 1, 13))
                               = parseInt(CharAt(arg.gtin.val, 13))))

GS1StandardCheckDigit(s) ==
    LET n == Len(s)
        S == 3 * SumDigitsAt(s, {i \in 0..(n - 1) : (n - 1 - i) % 2 = 0})
             + SumDigitsAt(s, {i \in 0..(n - 1) : (n - 1 - i) % 2 = 1})
    IN  (10 - (S % 10)) % 10

\* C8: calculateGS1CheckDigit returns the check digit the GS1 standard
\* documents for its data digits (weight 3 on the rightmost data digit),
\* whatever the length of the data, '123456789012' included.
C8_MatchesGS1Standard ==
    (Returned("calculateGS1CheckDigit") /\ IsDigitString(arg.digits))
        => (~ret.threw /\ ret.value = GS1StandardCheckDigit(arg.digits.val))

\* C10: calculateGS1CheckDigit throws, and returns no digit, for every input
\* that is not a non-empty string of the characters '0'..'9'.
C10_RejectsNonDigitInput ==
    (Returned("calculateGS1CheckDigit") /\ ~IsDigitString(arg.digits))
        => ret.threw

C10_Witness ==
    /\ Returned("calculateGS1CheckDigit")
    /\ arg.digits = Str("123\n")
    /\ ret.threw

\* the input is not what the validator accepts as well-formed: not a string,
\* not of the required length, or with a character outside the allowed set
Malformed(f, v) ==
    CASE f = "validateGTIN" -> ~(IsDigitString(v) /\ Len(v.val) = 14)
      [] f = "validateSSCC" -> ~(IsDigitString(v) /\ Len(v.val) = 18)
      [] f = "validateLotNumber" ->
            ~(/\ v.type = "string"
              /\ Len(v.val) \in 1..20
              /\ \A i \in 1..Len(v.val) : SubSeq(v.val, i, i) \in AlnumChars)

ValidatedValue ==
    CASE fn = "validateGTIN" -> arg.gtin
      [] fn = "validateSSCC" -> arg.sscc
      [] fn = "validateLotNumber" -> arg.lotNumber

\* C11: validateGTIN, validateSSCC and validateLotNumber never throw and
\* answer with a boolean; for every input that is not a string, has the wrong
\* length or has a character outside the allowed set the answer is false,
\* the same value a checksum mismatch gives.
C11_FailuresAreFalseNeverThrown ==
    (pc = "returned" /\ fn \in {"validateGTIN", "validateSSCC", "validateLotNumber"})
        => /\ ~ret.threw
           /\ ret.value \in BOOLEAN
           /\ Malformed(fn, ValidatedValue) => ret = Return(FALSE)

C11_Witness ==
    /\ Returned("validateGTIN")
    /\ mod = "utils"
    /\ arg.gtin = Str("1234567890123")
    /\ ret = Return(FALSE)

\* C12: validateSSCC(s) is true exactly when s is a string of 18 digits and
\* calculateGS1CheckDigit(s[0..16]) equals the digit s[17]: the checksum
\* validateSSCC computes inline is the one calculateGS1CheckDigit computes.
C12_ValidateSSCCAgreesWithCheckDigit ==
    Returned("validateSSCC")
        => /\ ~ret.threw
           /\ ret.value <=>
                 /\ IsDigitString(arg.sscc)
                 /\ Len(arg.sscc.val) = 18
                 /\ CheckDigitOf("utils", SubSeq(arg.sscc.val, 1, 17))
                        = parseInt(CharAt(arg.sscc.val, 17))

C12_Witness ==
    /\ Returned("validateSSCC")
    /\ arg.sscc = Str("123456789012345675")
    /\ ret = Return(TRUE)

\* C13: validateLotNumber(s) is true exactly when s is a string of 1 to 20
\* characters, each in [A-Za-z0-9]; the empty string, a string of 21
\* characters and a string with a space, a hyphen or a newline are rejected.
C13_LotNumberRule ==
    Returned("validateLotNumber")
        => /\ ~ret.threw
           /\ ret.value <=>
                 /\ arg.lotNumber.type = "string"
                 /\ Len(arg.lotNumber.val) >= 1
                 /\ Len(arg.lotNumber.val) <= 20
                 /\ \A i \in 1..Len(arg.lotNumber.val) :
                        SubSeq(arg.lotNumber.val, i, i) \in AlnumChars
           /\ (/\ arg.lotNumber.type = "string"
               /\ \/ arg.lotNumber.val = ""
                  \/ Len(arg.lotNumber.val) = 21
                  \/ \E i \in 1..Len(arg.lotNumber.val) :
                        SubSeq(arg.lotNumber.val, i, i) \in {" ", "-", "\n"})
                 => ret = Return(FALSE)

C13_Witness ==
    /\ Returned("validateLotNumber")
    /\ arg.lotNumber = Str(SubSeq(LotBase, 1, 21))
    /\ ret = Return(FALSE)

-----------------------------------------------------------------------------
(* Properties of the weight formatters (SpecWeight) *)

ReturnedWeight == pc = "returned" /\ fn \in {"formatGS1Weight", "formatWeightForGS1"}

\* the value has a number to read: a number other than NaN, or a string
\* that starts with a digit (the number is then its longest numeric prefix)
IsNumeric(v) ==
    \/ v.type = "number" /\ ~v.nan
    \/ v.type = "string" /\ v.val # "" /\ SubSeq(v.val, 1, 1) \in DigitChars

\* r is the integer nearest to x * 10^n, halves going up, for x = m / 10^d
IsRoundOf(r, m, d, n) ==
    /\ 2 * r * Pow10(d) - Pow10(d) <= 2 * m * Pow10(n)
    /\ 2 * m * Pow10(n) < 2 * r * Pow10(d) + Pow10(d)

\* round(weight * 10^decimalPlaces) of the call
RoundOfCall ==
    LET x == parseFloat(arg.weight)
        n == DefaultZero(arg.decimalPlaces)
        q == (x.val * Pow10(n)) \div Pow10(x.dec)
    IN  CHOOSE r \in {q, q + 1} : IsRoundOf(r, x.val, x.dec, n)

\* s is t with as many '0' in front as it takes to reach 6 characters
IsZeroPadded(s, t) ==
    /\ Len(s) = (IF Len(t) < 6 THEN 6 ELSE Len(t))
    /\ SubSeq(s, Len(s) - Len(t) + 1, Len(s)) = t
    /\ \A i \in 1..(Len(s) - Len(t)) : SubSeq(s, i, i) = "0"

-----------------------------------------------------------------------------
(* Properties of the date formatters (SpecDate) *)

\* the input is a date: a valid Date object or a date-only ISO string
IsDateInput(v) ==
    \/ v.type = "Date" /\ v.valid
    \/ v.type = "string" /\ IsISODate(v.val)

\* the two decimal digits of n mod 100
TwoDigits(n) == ToString((n % 100) \div 10) \o ToString(n % 10)

\* C17: formatGS1Date returns '' for every input that is not a date and a
\* string of exactly 6 digits for every other input; for the date
\* 2024-03-05 it returns '240305'.
C17_DateFormat ==
    Returned("formatGS1Date")
        => /\ ~ret.threw
           /\ IF IsDateInput(arg.date)
              THEN /\ Len(ret.value) = 6
                   /\ \A i \in 1..6 : SubSeq(ret.value, i, i) \in DigitChars
              ELSE ret.value = ""
           /\ arg.date \in {DateObj(2024, 2, 5), Str("2024-03-05")}
                 => ret.value = "240305"

\* C18: for a valid date the result is made of the local calendar fields,
\* without UTC normalisation: the year modulo 100 as 2 digits, the month
\* 01..12 and the day 01..31, each zero-padded to 2 characters.
C18_LocalCalendarFields ==
    (Returned("formatGS1Date") /\ IsDateInput(arg.date))
        => LET local == IF arg.date.type = "Date" THEN arg.date
                                                 ELSE newDate(arg.date, arg.tz)
           IN  /\ ~ret.threw
               /\ ret.value = TwoDigits(local.year) \o TwoDigits(local.month + 1)
                                  \o TwoDigits(local.day)

-----------------------------------------------------------------------------
(* Properties of generateSSCC (SpecSSCC) *)

Omitted(v) == v.type \in {"undefined", "null"}

\* C2: every value generateSSCC(p, e) returns is a string of exactly 18
\* digits that validateSSCC accepts, starting with e when e is given and
\* carrying p in the characters 1..len(p) when p is given.
C2_GeneratedSSCCIsValid ==
    (Returned("generateSSCC") /\ ~ret.threw)
        => /\ Len(ret.value) = 18
           /\ IsDigitString(Str(ret.value))
           /\ validateSSCC(Str(ret.value)) = Return(TRUE)
           /\ ~Omitted(arg.extensionDigit)
                 => SubSeq(ret.value, 1, 1) = ToString(arg.extensionDigit.val)
           /\ ~Omitted(arg.companyPrefix)
                 => SubSeq(ret.value, 2, 1 + Len(arg.companyPrefix.val))
                        = arg.companyPrefix.val

\* C9: generateSSCC throws for every company prefix of 17 or more digits
\* (serialLength negative) and never returns more than 18 characters.
C9_TooLongPrefixRejected ==
    Returned("generateSSCC")
        => /\ (~Omitted(arg.companyPrefix) /\ 17 - Len(arg.companyPrefix.val) - 1 < 0)
                 => ret.threw
           /\ ~ret.threw => Len(ret.value) <= 18

\* the digit floor(r x 10) of the i-th value r the random source returns
DrawnDigit(i) == ToString((10 * Random(arg.rnd, i)) \div RandDenom)

\* C19: when companyPrefix is omitted generateSSCC uses a prefix of 7 digits
\* in 1000000..9999999, so that the serial reference has exactly 9 digits;
\* when extensionDigit is omitted it uses one digit 0..9; this for every
\* value of the random source. A supplied extension digit 0 is used as
\* given, not replaced by a random digit.
C19_RandomPrefixAndExtension ==
    Returned("generateSSCC")
        => /\ Omitted(arg.companyPrefix)
                 => LET first == IF Omitted(arg.extensionDigit) THEN 2 ELSE 1
                    IN  /\ ~ret.threw
                        /\ Len(ret.value) = 18
                        /\ IsDigitString(Str(ret.value))
                        /\ StrToNat(SubSeq(ret.value, 2, 8)) \in 1000000..9999999
                        /\ \A j \in 0..8 :
                              SubSeq(ret.value, 9 + j, 9 + j) = DrawnDigit(first + j)
           /\ (Omitted(arg.extensionDigit) /\ ~ret.threw)
                 => SubSeq(ret.value, 1, 1) \in DigitChars
           /\ (arg.extensionDigit = Num(0) /\ ~ret.threw)
                 => SubSeq(ret.value, 1, 1) = "0"

C19_Witness ==
    /\ Returned("generateSSCC")
    /\ mod = "utils"
    /\ arg = [companyPrefix |-> Undefined, extensionDigit |-> Num(0),
              rnd |-> [seed |-> 19, step |-> 1]]
    /\ ~ret.threw
    /\ SubSeq(ret.value, 1, 8) = "09550000"

-----------------------------------------------------------------------------
(* Properties of the assemblers (SpecAssemble) *)

ReturnedAssembler ==
    pc = "returned" /\ fn \in {"createGS1DataMatrix", "createGS1BarcodeString"}

\* s contains t
Contains(s, t) ==
    \E i \in 1..(Len(s) - Len(t) + 1) : SubSeq(s, i, i + Len(t) - 1) = t

\* s without its group separators
RECURSIVE WithoutGS(_)
WithoutGS(s) ==
    IF s = "" THEN ""
    ELSE IF Len(s) >= 4 /\ SubSeq(s, 1, 4) = GS THEN WithoutGS(SubSeq(s, 5, Len(s)))
    ELSE SubSeq(s, 1, 1) \o WithoutGS(SubSeq(s, 2, Len(s)))

\* the '(ai)value' token that the function called emits for one entry of its
\* argument; "" for an entry that is not retained
TokenOf(e) ==
    IF Nullish(e[2]) THEN ""
    ELSE IF fn = "createGS1DataMatrix" THEN "(" \o e[1] \o ")" \o JSString(e[2])
    ELSE createGS1BarcodeString_switch(toUpperCase(e[1]), e[2], arg.tz)

\* the AI between the parentheses of a token
AIOfToken(t) ==
    LET close == CHOOSE i \in 1..Len(t) : SubSeq(t, i, i) = ")"
    IN  SubSeq(t, 2, close - 1)

\* the tokens of the entries 1..n of obj, one after the other
RECURSIVE TokensOf(_, _)
TokensOf(obj, n) == IF n = 0 THEN "" ELSE TokensOf(obj, n - 1) \o TokenOf(obj[n])

\* C3: the assembled string never ends with the group separator: nothing
\* follows the last retained element, whatever its AI class and whether or
\* not elements with null / undefined values come after it.
C3_NoTrailingSeparator ==
    ReturnedAssembler => ~endsWith(ret.value, GS)

\* C4: a group separator follows a retained element that is not the last one
\* emitted if and only if the AI emitted for it is a variable-length AI,
\* for elements under numeric keys and under named keys alike.
C4_SeparatorIffVariableLength ==
    ReturnedAssembler =>
        \A i \in 1..Len(arg.data) :
            LET t == TokenOf(arg.data[i])
            IN  (t # "" /\ ~endsWith(ret.value, t))
                    => (Contains(ret.value, t \o GS) <=> isVariableLengthAI(AIOfToken(t)))

\* C5: the elements 01 = '00012345678905', 10 = 'LOT42', 11 = '240305',
\* supplied in that order, assemble to
\* '(01)00012345678905<GS>(10)LOT42<GS>(11)240305'.
C5_EndToEndScenario ==
    (ReturnedAssembler
       /\ arg.data = << <<"01", Str("00012345678905")>>, <<"10", Str("LOT42")>>,
                        <<"11", Str("240305")>> >>)
        => ret.value = "(01)00012345678905<GS>(10)LOT42<GS>(11)240305"

\* C6: apart from the separators, the assembled string is the tokens of the
\* elements whose value is neither null nor undefined, in the order in
\* which the caller supplied the elements.
C6_TokensInSuppliedOrder ==
    ReturnedAssembler
        => WithoutGS(ret.value) = TokensOf(arg.data, Len(arg.data))

\* the AI code of the element names the assemblers know
KnownCode(name) ==
    CASE name = "SSCC" -> "00"
      [] name = "GTIN" -> "01"
      [] name = "CONTENT_GTIN" -> "02"
      [] name = "BATCH_LOT" -> "10"
      [] name = "PROD_DATE" -> "11"
      [] name = "EXP_DATE" -> "17"
      [] name = "QTY" -> "37"
      [] name = "WEIGHT_KG" -> "3103"
      [] name = "WEIGHT_LB" -> "3201"
      [] OTHER -> ""

\* the string assembled by the call: what createGS1BarcodeString returns,
\* what generateGS1Barcode hands to bwip-js
AssembledText == IF fn = "generateGS1Barcode" THEN ret.text ELSE ret.value

\* C20: in createGS1BarcodeString and generateGS1Barcode an element whose
\* key is not a known name and is purely numeric is emitted verbatim as
\* '(key)value'; one whose key is neither known nor numeric is dropped with
\* a warning and nothing else: the assembly raises no error and the other
\* elements are still emitted.
C20_UnknownKeys ==
    (pc = "returned" /\ fn \in {"createGS1BarcodeString", "generateGS1Barcode"})
        => /\ ret.threw => (fn = "generateGS1Barcode" /\ ret.value = "bwip-js error")
           /\ \A i \in 1..Len(arg.data) :
                 LET key == arg.data[i][1]
                     value == arg.data[i][2]
                     name == toUpperCase(key)
                     warning == "Unknown GS1 AI: " \o name
                     warned == \E j \in 1..Len(console) : console[j] = warning
                 IN  CASE Nullish(value) -> ~warned
                       [] ~Nullish(value) /\ KnownCode(name) # "" ->
                             /\ Contains(AssembledText, "(" \o KnownCode(name) \o ")")
                             /\ ~warned
                       [] ~Nullish(value) /\ KnownCode(name) = ""
                                         /\ IsDigitString(Str(key)) ->
                             /\ Contains(AssembledText,
                                         "(" \o key \o ")" \o JSString(value))
                             /\ ~warned
                       [] OTHER ->
                             /\ ~Contains(AssembledText, name)
                             /\ ~Contains(AssembledText, JSString(value))
                             /\ warned

C20_Witness ==
    /\ pc = "returned" /\ fn = "createGS1BarcodeString"
    /\ arg.data = << <<"10a", Str("qux")>>, <<"3103", Str("001500")>>,
                     <<"GTIN", Str("00012345678905")>> >>
    /\ ret = Return("(3103)001500(01)00012345678905")
    /\ console = <<"Unknown GS1 AI: 10A">>

\* C24: every date element, (11) or (17), that createGS1BarcodeString and
\* generateGS1Barcode emit carries exactly 6 digits, for every date value
\* that is not null or undefined, parseable or not.
C24_DateElementsHaveSixDigits ==
    (pc = "returned" /\ fn \in {"createGS1BarcodeString", "generateGS1Barcode"})
        => \A i \in 1..Len(arg.data) :
              LET name == toUpperCase(arg.data[i][1])
                  value == arg.data[i][2]
                  text == AssembledText
              IN  (name \in {"PROD_DATE", "EXP_DATE"} /\ ~Nullish(value))
                     => \E k \in 1..(Len(text) - 9) :
                           /\ SubSeq(text, k, k + 3) = "(" \o KnownCode(name) \o ")"
                           /\ IsDigitString(Str(SubSeq(text, k + 4, k + 9)))
                           /\ \/ k + 9 = Len(text)
                              \/ SubSeq(text, k + 10, k + 10) \notin DigitChars

-----------------------------------------------------------------------------
(* Properties of a sequence of calls (SpecSeq) *)

-----------------------------------------------------------------------------
(* Properties of the GTIN checks (SpecGtin) *)

\* the check has accepted its input: validateGTIN answered true,
\* validateGtinInput left gtinError empty
GtinAccepted ==
    IF fn = "validateGTIN" THEN ret = Return(TRUE) ELSE page.gtinError = ""

\* C22: every GTIN checksum check applies the same rule, weight 3 at the even
\* 0-based indexes and 1 at the odd ones: validateGTIN of src/lib/gs1Utils.js,
\* validateGTIN of src/lib/utils/gs1Utils.js and the two validateGtinInput of
\* the form page accept exactly the same 14-digit strings, those whose last
\* digit is that check digit of the first 13.
C22_SameGTINRule ==
    (pc = "returned" /\ IsDigitString(arg.gtin) /\ Len(arg.gtin.val) = 14)
        => (GtinAccepted <=>
               LET S == 3 * SumDigitsAt(SubSeq(arg.gtin.val, 1, 13), {0, 2, 4, 6, 8, 10, 12})
                        + SumDigitsAt(SubSeq(arg.gtin.val, 1, 13), {1, 3, 5, 7, 9, 11})
               IN  (10 - (S % 10)) % 10 = parseInt(CharAt(arg.gtin.val, 13)))

-----------------------------------------------------------------------------
(* Properties of generateSSCC on any prefix (SpecPrefix) *)

\* C23: generateSSCC called with a company prefix that contains a character
\* that is not a digit raises an error and returns no string, in every
\* variant, the one that computes the check digit inline included.
C23_NonDigitPrefixRaises ==
    (Returned("generateSSCC") /\ ~IsDigitString(arg.companyPrefix)) => ret.threw

-----------------------------------------------------------------------------
(* Properties of the form page (SpecSubmit) *)

LastFinished == page.log[Len(page.log)]

\* C25: handleSubmit sets isGenerating and clears error and success when it
\* starts; after every submission, whether the label was generated or a step
\* threw, isGenerating is false and exactly one of success and error is set:
\* success after a generated label, error after a throw.
C25_SubmissionStatus ==
    /\ page.tasks # {}
          => (page.isGenerating /\ page.error = Null /\ page.success = Null)
    /\ (page.tasks = {} /\ page.log # <<>>)
          => /\ ~page.isGenerating
             /\ (page.success # Null) # (page.error # Null)
             /\ (page.success # Null) <=> (LastFinished.outcome = "resolved")

\* a failed submission after a successful one has finished
C25_Witness ==
    /\ page.tasks = {}
    /\ Len(page.log) = 2
    /\ page.log[1].outcome = "resolved"
    /\ page.log[2].outcome = "rejected"
    /\ page.error # Null

Successful == {i \in 1..Len(page.log) : page.log[i].outcome = "resolved"}

\* C26: the displayed sscc is replaced by the SSCC of a new generateSSCC call
\* after each successful submission and only then (a failed submission leaves
\* it as it was); the SSCC written on a label is the one displayed when its
\* submission started; no two successful submissions use the SSCC of the
\* same generateSSCC call.
C26_FreshSSCCPerLabel ==
    /\ page.ssccCalls = 1 + Cardinality(Successful)
    /\ page.sscc = page.ssccCalls
    /\ \A i \in Successful : page.log[i].sscc = page.log[i].shown
    /\ \A i, j \in Successful : i # j => page.log[i].sscc # page.log[j].sscc

\* two labels generated with a failed submission between them
C26_Witness ==
    /\ Len(page.log) = 3
    /\ page.log[1].outcome = "resolved"
    /\ page.log[2].outcome = "rejected"
    /\ page.log[3].outcome = "resolved"
    /\ page.log[3].sscc = 2
    /\ page.sscc = 3

-----------------------------------------------------------------------------
(* Properties of the preview endpoint (SpecRequests, SpecServer) *)

\* the calls that are label work
LabelWork == {"generateSSCC", "generateLogisticLabelPDF", "writeFileSync", "readFileSync"}

Calls(r) == {r.calls[i] : i \in 1..Len(r.calls)}

\* call a is made before call b whenever b is made
Before(r, a, b) ==
    \A j \in 1..Len(r.calls) :
       r.calls[j] = b => \E i \in 1..(j - 1) : r.calls[i] = a

\* C27: the preview endpoints do no label work for a request that is not
\* authorised or not valid: POST and GET answer 401 when the authToken cookie
\* is missing or fails verifyToken, POST answers 400 when validateLabelForm
\* rejects the data, in each case with no SSCC generated, no PDF generated
\* and no preview file written, read or returned; POST consults the rate
\* limiter before it authenticates (a request the limiter turns away gets
\* the limiter's response).
C27_NoWorkUnlessAuthorisedAndValid ==
    /\ \A r \in server.answered :
          /\ (r.token # "valid" /\ ~r.limited) => r.status = 401
          /\ r.valid = "no" => r.status = 400
          /\ (r.token # "valid" \/ r.valid = "no" \/ r.limited)
                => (Calls(r) \cap LabelWork = {} /\ r.body = NoHash /\ r.status # 200)
          /\ r.method = "POST"
                => (r.calls[1] = "pdfRateLimiter"
                    /\ Before(r, "pdfRateLimiter", "cookies.get")
                    /\ Before(r, "pdfRateLimiter", "verifyToken"))
          /\ Before(r, "verifyToken", "validateLabelForm")
          /\ \A w \in LabelWork \ {"readFileSync"} : Before(r, "validateLabelForm", w)
    /\ \A p \in server.posts : p.req.token = "valid" /\ ~p.req.limited /\ p.req.valid # "no"

\* a POST with rejected data and a GET with no cookie for a stored preview
\* have been answered
C27_Witness ==
    /\ \E r \in server.answered : r.method = "POST" /\ r.valid = "no" /\ r.status = 400
    /\ \E r \in server.answered :
          r.method = "GET" /\ r.token = "missing" /\ r.stored # {} /\ r.status = 401

\* C28: after a successful POST a GET with the returned hash answers 200 with
\* the stored PDF until the cleanup timer deletes the file, and 404
\* afterwards; each cleanup run deletes every preview file older than one
\* hour and no file younger than that, even when examining or deleting one
\* of the files fails (the file that failed apart).
C28_PreviewLifecycle ==
    /\ \A r \in server.answered :
          (r.method = "POST" /\ r.status = 200)
             => /\ (r.hash \in server.removed) <=> (FileOf(server.files, r.hash) = {})
                /\ \A f \in FileOf(server.files, r.hash) : f.pdf = r.hash
    /\ \A r \in server.answered :
          (r.method = "GET" /\ r.token = "valid")
             => IF r.stored = {} THEN r.status = 404
                ELSE r.status = 200 /\ \A f \in r.stored : r.body = f.pdf
    /\ server.lastCleanup # <<>>
          => LET last == server.lastCleanup
             IN  \A f \in last.files \ last.failed :
                    (last.now - f.mtimeMs > PREVIEW_MAX_AGE) <=> (f \notin last.left)

-----------------------------------------------------------------------------
(* Properties of the labels page (SpecLabels, SpecLabelsFair) *)

\* labels/+page.svelte:105, the condition under which the page shows the
\* 'Generate GS1-128 Label' button
GenerateButtonShown == labels.labelData # Null /\ labels.previewUrl # Null

\* C29: on the labels page, after a form submission whose preview request
\* succeeds, the page eventually reaches a state in which both labelData and
\* the page's own previewUrl are set, so that the 'Generate GS1-128 Label'
\* button is shown and generatePDF can be invoked.
C29_GenerateButtonEventuallyShown ==
    (labels.preview.previewUrl # Null) ~> GenerateButtonShown

\* LabelPreview.svelte:108-122: the iframe with the preview is on screen
PreviewDisplayed ==
    /\ ~labels.preview.isLoading
    /\ labels.preview.error = Null
    /\ labels.preview.previewUrl # Null

\* C30: whenever LabelPreview displays a preview and no preview request is
\* in flight, the preview belongs to the current labelData, the form data
\* submitted last: also when the form is submitted again after a preview was
\* shown, and when it is submitted again while an earlier preview request is
\* in flight, in whatever order the responses arrive.
C30_PreviewIsOfCurrentLabelData ==
    (PreviewDisplayed /\ labels.fetches = {})
        => labels.preview.previewUrl = PreviewUrlOf(labels.labelData.form)

====
